---- MODULE Spec2Model ----
(***************************************************************************)
(* Extraction pipeline of the marketplace service: the Google Maps lead    *)
(* generator (scrapeGoogleMaps and its extractors) and the mobile SERP      *)
(* tracker (scrapeMobileSERP and its feature extractors).                   *)
(*                                                                         *)
(* Text is a sequence of one-character strings.  A fetched document is a    *)
(* sequence of markup fragments ("tokens"), each standing for one piece of  *)
(* text that one of the source's regular expressions matches, with the      *)
(* captured groups as fields and the offset of the fragment in the          *)
(* document.  Decimal numbers are fixed-point integers in units of 1/FP.    *)
(***************************************************************************)
EXTENDS Integers, Sequences, FiniteSets, TLC

\* ------------------------------------------------------------------------
\* Characters and strings
\* ------------------------------------------------------------------------

UpperSeq == <<"A", "B", "C", "D", "E", "F", "G", "H", "I", "J", "K", "L", "M", "N", "O", "P", "Q", "R", "S", "T", "U", "V", "W", "X", "Y", "Z">>

LowerSeq == <<"a", "b", "c", "d", "e", "f", "g", "h", "i", "j", "k", "l", "m", "n", "o", "p", "q", "r", "s", "t", "u", "v", "w", "x", "y", "z">>

DigitSeq == <<"0", "1", "2", "3", "4", "5", "6", "7", "8", "9">>

UpperSet == {UpperSeq[i] : i \in 1..26}

LowerSet == {LowerSeq[i] : i \in 1..26}

DigitSet == {DigitSeq[i] : i \in 1..10}

\* JavaScript \s restricted to the ASCII white space of the model alphabet
WhiteSet == {" ", "\t", "\n"}

\* the character class ["'"'] of isValidBusinessName
QuoteSet == {"\"", "'"}

LowerCh == [c \in UpperSet |-> LowerSeq[CHOOSE i \in 1..26 : UpperSeq[i] = c]]

UpperCh == [c \in LowerSet |-> UpperSeq[CHOOSE i \in 1..26 : LowerSeq[i] = c]]

\* String.prototype.toLowerCase
toLowerCase(s) == [i \in 1..Len(s) |-> IF s[i] \in UpperSet THEN LowerCh[s[i]] ELSE s[i]]

\* String.prototype.toUpperCase
toUpperCase(s) == [i \in 1..Len(s) |-> IF s[i] \in LowerSet THEN UpperCh[s[i]] ELSE s[i]]

\* String.prototype.trim
RECURSIVE trimStart(_)
trimStart(s) == IF s # <<>> /\ Head(s) \in WhiteSet THEN trimStart(Tail(s)) ELSE s

RECURSIVE trimEnd(_)
trimEnd(s) ==
    IF s # <<>> /\ s[Len(s)] \in WhiteSet THEN trimEnd(SubSeq(s, 1, Len(s) - 1)) ELSE s

trim(s) == trimEnd(trimStart(s))

\* s has t as a substring at position p
HasAt(s, t, p) == p >= 1 /\ p + Len(t) - 1 <= Len(s) /\ \A j \in 1..Len(t) : s[p + j - 1] = t[j]

\* String.prototype.indexOf, 1-based; 0 when t does not occur (the source's -1)
indexOf(s, t) ==
    IF \E p \in 1..(Len(s) + 1) : HasAt(s, t, p)
    THEN CHOOSE p \in 1..(Len(s) + 1) : HasAt(s, t, p) /\ \A q \in 1..(p - 1) : ~HasAt(s, t, q)
    ELSE 0

\* String.prototype.includes
includes(s, t) == indexOf(s, t) # 0

\* n copies of the text u
RECURSIVE Rep(_, _)
Rep(u, n) == IF n <= 0 THEN <<>> ELSE u \o Rep(u, n - 1)

\* ------------------------------------------------------------------------
\* Regular expressions of the denylist: a pattern is a start anchor a, an
\* end anchor z and a sequence t of atoms; an atom is a literal character
\* (matched ignoring case), "x?" an optional literal, "\\s*" any run of
\* white space, "\\d" a digit, "\\d*" any run of digits, "." any character
\* but a line break, ".*" any run of such characters.
\* ------------------------------------------------------------------------

AtomStar(a) == a \in {"\\s*", "\\d*", ".*"}

AtomOpt(a) == a \in {"s?"}

AtomOK(a, ch) ==
    CASE a \in {"\\s*"} -> ch \in WhiteSet
      [] a \in {"\\d", "\\d*"} -> ch \in DigitSet
      [] a \in {".", ".*"} -> ch # "\n"
      [] a = "s?" -> ch \in {"s", "S"}
      [] OTHER -> (IF ch \in UpperSet THEN LowerCh[ch] ELSE ch) = a

\* the positions after one atom, for a match that stands at a position of P
AtomEnds(a, s, P) ==
    IF AtomStar(a)
    THEN {q \in 1..(Len(s) + 1) : \E p \in P : p <= q /\ \A j \in p..(q - 1) : AtomOK(a, s[j])}
    ELSE LET next == {p + 1 : p \in {x \in P : x <= Len(s) /\ AtomOK(a, s[x])}}
         IN  IF AtomOpt(a) THEN P \cup next ELSE next

\* the positions where a match of the atoms from the i-th on can end
RECURSIVE MatchEnds(_, _, _, _)
MatchEnds(t, i, s, P) ==
    IF i > Len(t) \/ P = {} THEN P ELSE MatchEnds(t, i + 1, s, AtomEnds(t[i], s, P))

\* with an end anchor the match ends where the text ends
EndsMatch(pat, s, ends) == IF pat.z THEN Len(s) + 1 \in ends ELSE ends # {}

\* RegExp.prototype.test
RegexTest(pat, s) ==
    EndsMatch(pat, s, MatchEnds(pat.t, 1, s, IF pat.a THEN {1} ELSE 1..(Len(s) + 1)))

\* ------------------------------------------------------------------------
\* isValidBusinessName
\* ------------------------------------------------------------------------

MinNameLen == 2

MaxNameLen == 80

MaxPromoLen == 50

MaxWords == 8

MaxCapsLen == 20

invalidPatterns == <<
    [a |-> TRUE, z |-> FALSE, t |-> <<"r", "e", "s", "u", "l", "t", "s?", "\\s*", "f", "o", "r">>],
    [a |-> TRUE, z |-> FALSE, t |-> <<"s", "h", "o", "w", "i", "n", "g">>],
    [a |-> TRUE, z |-> FALSE, t |-> <<"m", "a", "p", "\\s*", "d", "a", "t", "a">>],
    [a |-> TRUE, z |-> FALSE, t |-> <<"g", "o", "o", "g", "l", "e">>],
    [a |-> TRUE, z |-> FALSE, t |-> <<"\\d", "\\d*", "\\s*", "r", "e", "s", "u", "l", "t", "s?">>],
    [a |-> TRUE, z |-> FALSE, t |-> <<"s", "e", "a", "r", "c", "h">>],
    [a |-> TRUE, z |-> FALSE, t |-> <<"f", "i", "l", "t", "e", "r", "s?">>],
    [a |-> TRUE, z |-> FALSE, t |-> <<"s", "o", "r", "t">>],
    [a |-> TRUE, z |-> FALSE, t |-> <<"r", "a", "t", "i", "n", "g">>],
    [a |-> TRUE, z |-> TRUE, t |-> <<"r", "e", "v", "i", "e", "w", "s?">>],
    [a |-> TRUE, z |-> FALSE, t |-> <<"o", "p", "e", "n", "\\s*", "n", "o", "w">>],
    [a |-> TRUE, z |-> FALSE, t |-> <<"c", "l", "o", "s", "e", "d">>],
    [a |-> TRUE, z |-> FALSE, t |-> <<"h", "o", "u", "r", "s">>],
    [a |-> TRUE, z |-> FALSE, t |-> <<"d", "i", "r", "e", "c", "t", "i", "o", "n", "s">>],
    [a |-> TRUE, z |-> FALSE, t |-> <<"w", "e", "b", "s", "i", "t", "e">>],
    [a |-> TRUE, z |-> FALSE, t |-> <<"c", "a", "l", "l">>],
    [a |-> TRUE, z |-> FALSE, t |-> <<"s", "h", "a", "r", "e">>],
    [a |-> TRUE, z |-> FALSE, t |-> <<"s", "a", "v", "e">>],
    [a |-> TRUE, z |-> FALSE, t |-> <<"m", "o", "r", "e", "\\s*", "i", "n", "f", "o">>],
    [a |-> TRUE, z |-> FALSE, t |-> <<"s", "e", "e", "\\s*", "m", "o", "r", "e">>],
    [a |-> TRUE, z |-> FALSE, t |-> <<"s", "p", "o", "n", "s", "o", "r", "e", "d">>],
    [a |-> TRUE, z |-> TRUE, t |-> <<"a", "d">>],
    [a |-> TRUE, z |-> TRUE, t |-> <<"m", "e", "n", "u">>],
    [a |-> TRUE, z |-> TRUE, t |-> <<"p", "h", "o", "t", "o", "s?">>],
    [a |-> TRUE, z |-> TRUE, t |-> <<"o", "v", "e", "r", "v", "i", "e", "w">>],
    [a |-> TRUE, z |-> TRUE, t |-> <<"a", "b", "o", "u", "t">>],
    [a |-> FALSE, z |-> FALSE, t |-> <<"f", "r", "e", "e", " ", "c", "o", "n", "s", "u", "l", "t">>],
    [a |-> FALSE, z |-> FALSE, t |-> <<"c", "a", "l", "l", " ", "u", "s">>],
    [a |-> FALSE, z |-> FALSE, t |-> <<"c", "a", "l", "l", " ", "t", "o", "d", "a", "y">>],
    [a |-> FALSE, z |-> FALSE, t |-> <<"n", "o", " ", "i", "n", "s", "u", "r", "a", "n", "c", "e">>],
    [a |-> FALSE, z |-> FALSE, t |-> <<"a", "f", "f", "o", "r", "d", "a", "b", "l", "e">>],
    [a |-> FALSE, z |-> FALSE, t |-> <<"h", "i", "g", "h", "l", "y", " ", "r", "a", "t", "e", "d">>],
    [a |-> FALSE, z |-> FALSE, t |-> <<"b", "e", "s", "t", " ", ".", ".*", " ", "i", "n">>],
    [a |-> FALSE, z |-> FALSE, t |-> <<"e", "l", "e", "v", "a", "t", "e", " ", "y", "o", "u", "r">>],
    [a |-> FALSE, z |-> FALSE, t |-> <<"s", "t", "y", "l", "i", "s", "h", " ", "a", "t", "m", "o", "s", "p", "h", "e", "r", "e">>],
    [a |-> FALSE, z |-> FALSE, t |-> <<"i", "n", "c", "r", "e", "d", "i", "b", "l", "e", " ", "e", "x", "p", "e", "r", "i", "e", "n", "c", "e">>],
    [a |-> FALSE, z |-> FALSE, t |-> <<"a", "u", "t", "h", "e", "n", "t", "i", "c", " ", ".", ".*", " ", "f", "o", "o", "d">>],
    [a |-> FALSE, z |-> FALSE, t |-> <<"p", "r", "i", "v", "a", "t", "e", " ", "e", "v", "e", "n", "t">>],
    [a |-> FALSE, z |-> FALSE, t |-> <<"d", "e", "n", "t", "a", "l", " ", "p", "r", "o", "v", "i", "d", "e", "r">>],
    [a |-> FALSE, z |-> FALSE, t |-> <<"d", "e", "n", "t", "a", "l", " ", "i", "n", "s", "u", "r", "a", "n", "c", "e">>],
    [a |-> FALSE, z |-> FALSE, t |-> <<"s", "a", "v", "i", "n", "g", "s", " ", "p", "l", "a", "n">>],
    [a |-> FALSE, z |-> FALSE, t |-> <<"s", "h", "o", "w", "e", "d", " ", "u", "p", " ", "o", "n", " ", "t", "i", "m", "e">>],
    [a |-> FALSE, z |-> FALSE, t |-> <<"a", "r", "r", "i", "v", "e", "d", " ", "e", "a", "r", "l", "y">>],
    [a |-> FALSE, z |-> FALSE, t |-> <<"e", "x", "c", "e", "l", "l", "e", "n", "t", " ", "j", "o", "b">>],
    [a |-> FALSE, z |-> FALSE, t |-> <<"f", "e", "l", "t", " ", "n", "o", " ", "p", "a", "i", "n">>],
    [a |-> FALSE, z |-> FALSE, t |-> <<"v", "e", "r", "y", " ", "t", "a", "s", "t", "y">>],
    [a |-> FALSE, z |-> FALSE, t |-> <<"g", "r", "e", "a", "t", " ", "d", "r", "i", "n", "k", "s">>],
    [a |-> FALSE, z |-> FALSE, t |-> <<"f", "r", "i", "e", "n", "d", "l", "y", " ", "s", "e", "r", "v", "i", "c", "e">>],
    [a |-> FALSE, z |-> FALSE, t |-> <<"f", "i", "x", "e", "d", " ", "i", "t">>],
    [a |-> FALSE, z |-> FALSE, t |-> <<"f", "o", "u", "n", "d", " ", "t", "h", "e", " ", "l", "e", "a", "k">>],
    [a |-> FALSE, z |-> FALSE, t |-> <<"d", "i", "a", "g", "n", "o", "s", "e", "d">>],
    [a |-> FALSE, z |-> FALSE, t |-> <<"p", "l", "u", "m", "b", "i", "n", "g", " ", "i", "s", "s", "u", "e", "s">>]
  >>

\* /^["'"']/.test(name)
StartsWithQuote(name) == name # <<>> /\ name[1] \in QuoteSet

\* /["'"']$/.test(name) && name.split(/["'"']/).length > 2
EndsQuoted(name) ==
    /\ name # <<>>
    /\ name[Len(name)] \in QuoteSet
    /\ Cardinality({i \in 1..Len(name) : name[i] \in QuoteSet}) + 1 > 2

\* the runs of white space alone, without the piece after the last one
WhiteRunCount(name) ==
    Cardinality({i \in 1..Len(name) :
        name[i] \in WhiteSet /\ (i = 1 \/ name[i - 1] \notin WhiteSet)})

\* name.split(/\s+/).length: one piece more than the maximal runs of white space
SplitWordCount(name) ==
    Cardinality({i \in 1..Len(name) :
        name[i] \in WhiteSet /\ (i = 1 \/ name[i - 1] \notin WhiteSet)}) + 1

MatchesInvalidPattern(name) ==
    \E k \in 1..Len(invalidPatterns) : RegexTest(invalidPatterns[k], name)

isValidBusinessName(name) ==
    /\ ~(name = <<>> \/ Len(name) < MinNameLen \/ Len(name) > MaxNameLen)
    /\ ~StartsWithQuote(name)
    /\ ~EndsQuoted(name)
    /\ ~(includes(name, <<" ", "-", " ">>) /\ Len(name) > MaxPromoLen)
    /\ ~(SplitWordCount(name) > MaxWords)
    /\ ~MatchesInvalidPattern(name)
    /\ \E i \in 1..Len(name) : name[i] \in UpperSet \cup LowerSet
    /\ ~(name = toUpperCase(name) /\ Len(name) > MaxCapsLen)

\* ------------------------------------------------------------------------
\* Numbers in text
\* ------------------------------------------------------------------------

\* fixed-point unit: a decimal number v is the integer v * FP (four decimals)
FP == 10 * 10 * 10 * 10

\* the fraction digits one unit holds
FracZeros == <<"0", "0", "0", "0">>

\* values are tagged so that a number, NaN and null can be compared:
\* a number is Num(v) with v in fixed point, a text that may be null is Text(s)
Num(v) == [num |-> v]

Text(s) == [text |-> s]

NaN == [nan |-> TRUE]

null == [null |-> TRUE]

DigitVal == [c \in DigitSet |-> (CHOOSE i \in 1..10 : DigitSeq[i] = c) - 1]

RECURSIVE DigitsVal(_)
DigitsVal(ds) ==
    IF ds = <<>> THEN 0 ELSE DigitsVal(SubSeq(ds, 1, Len(ds) - 1)) * 10 + DigitVal[ds[Len(ds)]]

AllDigits(ds) == \A i \in 1..Len(ds) : ds[i] \in DigitSet

\* the digits before and after the decimal point, which stands at position dot (0: none)
DecimalParts(body, dot) ==
    [ip |-> IF dot = 0 THEN body ELSE SubSeq(body, 1, dot - 1),
     fr |-> IF dot = 0 THEN <<>> ELSE SubSeq(body, dot + 1, Len(body))]

FromParts(parts) ==
    IF parts.ip = <<>> \/ ~AllDigits(parts.ip) \/ ~AllDigits(parts.fr) THEN NaN
    ELSE Num(DigitsVal(parts.ip) * FP + DigitsVal(SubSeq(parts.fr \o FracZeros, 1, Len(FracZeros))))

ParseUnsigned(body) == FromParts(DecimalParts(body, indexOf(body, <<".">>)))

Negated(v) == IF v = NaN THEN NaN ELSE Num(0 - v.num)

\* parseFloat of a captured decimal text ("4.5", "-74.0060", "45", "4."):
\* NaN when the text does not start with a number
parseFloat(txt) ==
    IF txt # <<>> /\ txt[1] = "-" THEN Negated(ParseUnsigned(Tail(txt))) ELSE ParseUnsigned(txt)

\* lo <= v && v <= hi of JavaScript numbers: false for NaN
Between(v, lo, hi) == v # NaN /\ v # null /\ v.num >= lo * FP /\ v.num <= hi * FP

\* the text has the form \d\.\d
IsDdotD(txt) == Len(txt) = 3 /\ txt[1] \in DigitSet /\ txt[2] = "." /\ txt[3] \in DigitSet

\* the text has the form \d\.?\d?
IsDoptD(txt) ==
    \/ Len(txt) = 1 /\ txt[1] \in DigitSet
    \/ Len(txt) = 2 /\ txt[1] \in DigitSet /\ txt[2] \in DigitSet \cup {"."}
    \/ IsDdotD(txt)

\* ------------------------------------------------------------------------
\* decodeUnicodeEscapes
\* ------------------------------------------------------------------------

\* the printable ASCII characters, from code 32 (the grave accent, code 96, is written <grave>)
AsciiSeq ==
    <<" ", "!", "\"", "#", "$", "%", "&", "'", "(", ")", "*", "+", ",", "-", ".", "/", "0", "1", "2",
    "3", "4", "5", "6", "7", "8", "9", ":", ";", "<", "=", ">", "?", "@", "A", "B", "C", "D", "E", "F",
    "G", "H", "I", "J", "K", "L", "M", "N", "O", "P", "Q", "R", "S", "T", "U", "V", "W", "X", "Y", "Z",
    "[", "\\", "]", "^", "_", "<grave>", "a", "b", "c", "d", "e", "f", "g", "h", "i", "j", "k", "l", "m", "n",
    "o", "p", "q", "r", "s", "t", "u", "v", "w", "x", "y", "z", "{", "|", "}", "~">>

FirstAscii == 2 * 16

HexSeq == <<"0", "1", "2", "3", "4", "5", "6", "7", "8", "9", "a", "b", "c", "d", "e", "f">>

IsHex(c) == \E i \in 1..16 : HexSeq[i] = (IF c \in UpperSet THEN LowerCh[c] ELSE c)

HexVal(c) == (CHOOSE i \in 1..16 : HexSeq[i] = (IF c \in UpperSet THEN LowerCh[c] ELSE c)) - 1

RECURSIVE parseHex(_)
parseHex(hs) ==
    IF hs = <<>> THEN 0 ELSE parseHex(SubSeq(hs, 1, Len(hs) - 1)) * 16 + HexVal(hs[Len(hs)])

\* String.fromCharCode; a character outside printable ASCII is kept as one opaque character
fromCharCode(n) ==
    IF n >= FirstAscii /\ n < FirstAscii + Len(AsciiSeq) THEN AsciiSeq[n - FirstAscii + 1] ELSE "<other>"

\* s.replace(/\\<tag>([0-9a-fA-F]{n})/g, fromCharCode(parseInt(code, 16)))
RECURSIVE replaceEscapes(_, _, _)
replaceEscapes(s, tag, n) ==
    IF s = <<>> THEN <<>>
    ELSE IF /\ Len(s) >= 2 + n
            /\ s[1] = "\\"
            /\ s[2] = tag
            /\ \A j \in 3..(2 + n) : IsHex(s[j])
         THEN <<fromCharCode(parseHex(SubSeq(s, 3, 2 + n)))>> \o replaceEscapes(SubSeq(s, 3 + n, Len(s)), tag, n)
         ELSE <<Head(s)>> \o replaceEscapes(Tail(s), tag, n)

decodeUnicodeEscapes(str) == replaceEscapes(replaceEscapes(str, "u", 4), "x", 2)

\* ------------------------------------------------------------------------
\* Documents of the business pipeline
\*
\* html == [len |-> length of the text, toks |-> fragments by increasing offset]
\*   [k |-> "js",   at, lat, lng, name]   [null,null,LAT,LNG],"NAME"
\*   [k |-> "aria", at, name, id]         aria-label="NAME" data-cid="ID"
\*   [k |-> "cls",  at, name]             class="qBF1Pd">NAME<
\*   [k |-> "ld",   at, w, json]          <script type="application/ld+json">..</script>
\*   [k |-> "wiz",  at, w, entries]       window.__WIZ_DATA__ = [..];
\*   [k |-> "rating", at, shape, txt]     "4.5 stars" | "rating: 4.5" | "4.5 (123)"
\*   [k |-> "coord", at, amp, lat, lng]   "@40.7128,-74.0060" (amp: the leading @)
\*   [k |-> "title", at, name]            <title>NAME</title>
\*   [k |-> "card", at, w, pre, cid, name, card]   data-cid="CID">..<div class="dbg0pd">NAME<..
\*   [k |-> "osr",  at, w, pre, name, card]        <span class="OSrXXb">NAME</span>..<span>..</span>
\*   [k |-> "vkp",  at, w, pre, name, card]        <div class="VkpGBb">..<span>NAME</span>..</div>
\*   [k |-> "kg",   at, w, pre, name]              <div data-attrid="title">NAME<
\* w is the length of such a fragment, pre the offset of NAME in it, and card the
\* text the expression captures next to the name, itself a document of fragments.
\*   [k |-> "text", at, text]                      any other text
\* `at` is the 0-based offset of the fragment (nat, in a JSON-LD item or a WIZ entry,
\* the offset of its name in the fragment); text between fragments matches nothing.
\* ------------------------------------------------------------------------

Max(a, b) == IF a >= b THEN a ELSE b

Min(a, b) == IF a <= b THEN a ELSE b

SetMin(S) == CHOOSE x \in S : \A y \in S : x <= y

\* the least element of S, d when S is empty
MinOr(S, d) == IF S = {} THEN d ELSE SetMin(S)

NameKinds == {"js", "aria", "cls", "title", "card", "osr", "vkp", "kg"}

\* offset of the name text inside a name-bearing fragment
NameAt(t) ==
    CASE t.k = "js" -> t.at + 11 + Len(t.lat) + 1 + Len(t.lng) + 3
      [] t.k = "aria" -> t.at + 12
      [] t.k = "cls" -> t.at + 15
      [] t.k = "title" -> t.at + 7
      [] t.k \in {"card", "osr", "vkp", "kg"} -> t.at + t.pre

RatingShapeLen(shape) == CASE shape = "stars" -> 6 [] shape = "label" -> 8 [] shape = "paren" -> 6

TokWidth(t) ==
    CASE t.k = "js" -> 11 + Len(t.lat) + 1 + Len(t.lng) + 3 + Len(t.name) + 1
      [] t.k = "aria" -> 12 + Len(t.name) + 12 + Len(t.id) + 1
      [] t.k = "cls" -> 15 + Len(t.name) + 1
      [] t.k = "title" -> 7 + Len(t.name) + 8
      [] t.k \in {"ld", "wiz", "card", "osr", "vkp", "kg"} -> t.w
      [] t.k = "rating" -> Len(t.txt) + RatingShapeLen(t.shape)
      [] t.k = "coord" -> (IF t.amp THEN 1 ELSE 0) + Len(t.lat) + 1 + Len(t.lng)
      [] t.k = "text" -> Len(t.text)

\* the places of the document where name text stands: <<offset, text>>
NameSpots(html) ==
    {<<NameAt(html.toks[i]), html.toks[i].name>> :
        i \in {j \in 1..Len(html.toks) : html.toks[j].k \in NameKinds}}
    \cup UNION {{<<html.toks[i].at + html.toks[i].json.items[j].nat, html.toks[i].json.items[j].name.text>> :
                    j \in {n \in 1..Len(html.toks[i].json.items) : html.toks[i].json.items[n].name # null}} :
                i \in {j \in 1..Len(html.toks) : html.toks[j].k = "ld"}}
    \cup UNION {{<<html.toks[i].at + html.toks[i].entries[j].nat, html.toks[i].entries[j].name>> :
                    j \in 1..Len(html.toks[i].entries)} :
                i \in {j \in 1..Len(html.toks) : html.toks[j].k = "wiz"}}
    \cup {<<html.toks[i].at, html.toks[i].text>> :
            i \in {j \in 1..Len(html.toks) : html.toks[j].k = "text"}}

\* html.includes(s)
htmlIncludes(html, s) == \E sp \in NameSpots(html) : includes(sp[2], s)

\* html.indexOf(name), 0-based; -1 when the name does not occur
htmlIndexOf(html, name) ==
    MinOr({sp[1] + indexOf(sp[2], name) - 1 : sp \in {s \in NameSpots(html) : includes(s[2], name)}},
          -1)

\* the fragment lies inside html.substring(cs, ce)
InWindow(html, i, cs, ce) == cs <= html.toks[i].at /\ html.toks[i].at + TokWidth(html.toks[i]) <= ce

\* context.match(rx): index of the leftmost fragment of the window that M accepts, 0 for no match
FirstTok(html, cs, ce, M(_)) ==
    MinOr({i \in 1..Len(html.toks) : InWindow(html, i, cs, ce) /\ M(html.toks[i])}, 0)

\* which rating expression matches which fragment
RatingMatches(rx, t) ==
    /\ t.k = "rating"
    /\ CASE rx \in {"(\\d\\.\\d)\\s*stars?"} -> t.shape = "stars" /\ IsDdotD(t.txt)
         [] rx \in {"rating[:\\s]*(\\d\\.\\d)"} -> t.shape = "label" /\ IsDdotD(t.txt)
         [] rx \in {"(\\d\\.\\d)\\s*\\(\\d+\\)", "(\\d\\.\\d)\\s*\\("} -> t.shape = "paren" /\ IsDdotD(t.txt)
         [] rx \in {"(\\d\\.?\\d?)\\s*(?:stars?|out of 5)"} -> t.shape = "stars" /\ IsDoptD(t.txt)
         [] rx \in {"(\\d\\.?\\d?)\\s*(?:\\(|stars?|rating)"} -> t.shape \in {"stars", "paren"} /\ IsDoptD(t.txt)
         [] rx \in {"(\\d\\.?\\d?)\\s*\\((\\d+)\\)"} -> t.shape = "paren" /\ IsDoptD(t.txt)
         [] OTHER -> FALSE

\* one to three digits, a point, four digits or more
DegreesParts(parts) ==
    /\ Len(parts.ip) >= 1 /\ Len(parts.ip) <= 3 /\ AllDigits(parts.ip)
    /\ Len(parts.fr) >= 4 /\ AllDigits(parts.fr)

\* the text has the form -?\d{1,3}\.\d{4,}
IsDegrees(txt) ==
    DegreesParts(DecimalParts(IF txt # <<>> /\ txt[1] = "-" THEN Tail(txt) ELSE txt,
                              indexOf(IF txt # <<>> /\ txt[1] = "-" THEN Tail(txt) ELSE txt, <<".">>)))

\* /(-?\d{1,3}\.\d{4,}),\s*(-?\d{1,3}\.\d{4,})/ also matches inside a data array
CoordPairMatches(t) == t.k \in {"coord", "js"} /\ IsDegrees(t.lat) /\ IsDegrees(t.lng)

\* /@(-?\d{1,3}\.\d{4,}),(-?\d{1,3}\.\d{4,})/
AtCoordMatches(t) == t.k = "coord" /\ t.amp /\ IsDegrees(t.lat) /\ IsDegrees(t.lng)

ValidLatLng(lat, lng) == Between(lat, -90, 90) /\ Between(lng, -180, 180)

\* ------------------------------------------------------------------------
\* BusinessData records (name, rating, coordinates, placeId; the other
\* fields of the source's record are not modelled)
\* ------------------------------------------------------------------------

BusinessData(name, rating, coordinates, placeId) ==
    [name |-> name, rating |-> rating, coordinates |-> coordinates, placeId |-> placeId]

LatLng(lat, lng) == [latitude |-> lat, longitude |-> lng]

\* x || null for a string x
OrNull(x) == IF x = <<>> THEN null ELSE Text(x)

\* parseFloat(match[1]) for the match at fragment m, NaN when there is no match
MatchedNumber(html, m) == IF m = 0 THEN NaN ELSE parseFloat(html.toks[m].txt)

\* the loop over ratingPatterns: the first expression whose leftmost match is within [1,5]
RECURSIVE FirstValidRating(_, _, _, _, _)
RECURSIVE KeepRating(_, _, _, _, _, _)
FirstValidRating(html, cs, ce, rxs, i) ==
    IF i > Len(rxs) THEN null
    ELSE KeepRating(html, cs, ce, rxs, i,
                    MatchedNumber(html, FirstTok(html, cs, ce, LAMBDA t : RatingMatches(rxs[i], t))))

\* if (rating >= 1 && rating <= 5) { business.rating = rating; break; }
KeepRating(html, cs, ce, rxs, i, rating) ==
    IF Between(rating, 1, 5) THEN rating ELSE FirstValidRating(html, cs, ce, rxs, i + 1)

ContextBefore == 500

ContextAfter == 2000

ratingPatterns ==
    << "(\\d\\.\\d)\\s*stars?",
       "rating[:\\s]*(\\d\\.\\d)",
       "aria-label=\"(\\d\\.?\\d?)\\s*stars?",
       ">(\\d\\.\\d)<\\/span>[^<]*(?:star|rating)",
       "class=\"[^\"]*(?:rating|stars)[^\"]*\"[^>]*>(\\d\\.?\\d?)<",
       "(\\d\\.\\d)\\s*\\(\\d+\\)" >>

\* { latitude: parseFloat(m[1]), longitude: parseFloat(m[2]) } for the match at fragment m
MatchedPair(html, m) ==
    IF m = 0 THEN LatLng(NaN, NaN)
    ELSE LatLng(parseFloat(html.toks[m].lat), parseFloat(html.toks[m].lng))

\* the pair when both numbers are in range, else null
InRangeOrNull(pair) ==
    IF ValidLatLng(pair.latitude, pair.longitude) THEN pair ELSE null

\* the coordinates block of createBusinessFromContext
ContextCoordinates(html, cs, ce) ==
    InRangeOrNull(MatchedPair(html, FirstTok(html, cs, ce, CoordPairMatches)))

\* the fields createBusinessFromContext reads from html.substring(cs, ce)
ContextFields(html, business, cs, ce) ==
    [business EXCEPT
        !.rating = FirstValidRating(html, cs, ce, ratingPatterns, 1),
        !.coordinates = IF business.coordinates = null THEN ContextCoordinates(html, cs, ce)
                        ELSE business.coordinates]

\* the part of createBusinessFromContext after const nameIndex = html.indexOf(name)
WithContext(html, business, nameIndex) ==
    IF nameIndex = -1 THEN business
    ELSE ContextFields(html, business,
                       Max(0, nameIndex - ContextBefore), Min(html.len, nameIndex + ContextAfter))

createBusinessFromContext(html, name, coordinates, placeId) ==
    WithContext(html, BusinessData(trim(name), null, coordinates, OrNull(placeId)),
                htmlIndexOf(html, name))

\* ------------------------------------------------------------------------
\* extractFromJsonLd: json == [ok |-> JSON.parse succeeds, nullValue |-> some
\* value of the parsed data is null, items |-> the values processItem visits, in
\* order]; an item is
\* [type, name, ratingValue, geo, nat]: type, name and ratingValue are Text(..) or
\* null, geo is null or [latitude |-> text, longitude |-> text]
\* ------------------------------------------------------------------------

LocalBusinessType == <<"L", "o", "c", "a", "l", "B", "u", "s", "i", "n", "e", "s", "s">>

RestaurantType == <<"R", "e", "s", "t", "a", "u", "r", "a", "n", "t">>

StoreType == <<"S", "t", "o", "r", "e">>

BusinessWord == <<"B", "u", "s", "i", "n", "e", "s", "s">>

IsBusinessType(type) ==
    /\ type # null
    /\ \/ type.text = LocalBusinessType
       \/ type.text = RestaurantType
       \/ type.text = StoreType
       \/ includes(type.text, BusinessWord)

JsonLdBusiness(item) ==
    BusinessData(
        IF item.name = null THEN <<>> ELSE item.name.text,
        IF item.ratingValue # null /\ item.ratingValue.text # <<>>
            THEN parseFloat(item.ratingValue.text) ELSE null,
        IF item.geo # null
            THEN LatLng(parseFloat(item.geo.latitude), parseFloat(item.geo.longitude))
            ELSE null,
        null)

\* if (business.name) businesses.push(business)
PushNamed(business) == IF business.name # <<>> THEN <<business>> ELSE <<>>

RECURSIVE processItems(_, _)
processItems(items, i) ==
    IF i > Len(items) THEN <<>>
    ELSE (IF IsBusinessType(items[i].type) THEN PushNamed(JsonLdBusiness(items[i])) ELSE <<>>)
         \o processItems(items, i + 1)

\* processItem recurses into every value of an object or array; on a null value
\* item['@type'] is a TypeError, which leaves extractFromJsonLd before it returns
processItemThrows(data) == data.nullValue

\* the list extractFromJsonLd returns when processItem does not throw
extractFromJsonLd(data) == processItems(data.items, 1)

\* ------------------------------------------------------------------------
\* parseWizData: entries == the ["NAME",null,[null,null,LAT,LNG] groups of the text
\* ------------------------------------------------------------------------

\* one match of the entry expression: the record, if the decoded name is valid
WizBusiness(name, lat, lng) ==
    IF isValidBusinessName(name) THEN <<BusinessData(name, null, LatLng(lat, lng), null)>> ELSE <<>>

RECURSIVE parseWizEntries(_, _)
parseWizEntries(entries, i) ==
    IF i > Len(entries) THEN <<>>
    ELSE WizBusiness(decodeUnicodeEscapes(entries[i].name),
                     parseFloat(entries[i].lat), parseFloat(entries[i].lng))
         \o parseWizEntries(entries, i + 1)

parseWizData(entries) == parseWizEntries(entries, 1)

\* ------------------------------------------------------------------------
\* extractBusinessesFromHtml: the scan state is
\* [businesses |-> records pushed so far, seenNames |-> keys added so far]
\* ------------------------------------------------------------------------

NoBusinesses == [businesses |-> <<>>, seenNames |-> {}]

\* the name a strategy reads from a fragment it matches (the class-based one trims first)
CandidateName(t) == decodeUnicodeEscapes(IF t.k = "cls" THEN trim(t.name) ELSE t.name)

\* the record a strategy builds for a fragment it matches: the data arrays give the
\* coordinates, aria-label gives the place id
CandidateBusiness(html, t, name) ==
    createBusinessFromContext(html, name,
        IF t.k = "js" THEN LatLng(parseFloat(t.lat), parseFloat(t.lng)) ELSE null,
        IF t.k = "aria" THEN t.id ELSE <<>>)

\* what the expression of a strategy matches: [^"]{2,100} for the data arrays,
\* [^"]+ for aria-label, [^<]+ for the class-based headline
StrategyMatches(kind, t) ==
    /\ t.k = kind
    /\ CASE kind = "js" -> Len(t.name) >= 2 /\ Len(t.name) <= 100
         [] OTHER -> Len(t.name) >= 1

\* seenNames.add(key); businesses.push(business)
Push(st, key, business) ==
    [businesses |-> Append(st.businesses, business), seenNames |-> st.seenNames \cup {key}]

\* the body of the while loop of strategies 1 to 3 for one match
MatchStep(html, t, name, st) ==
    IF isValidBusinessName(name) /\ toLowerCase(name) \notin st.seenNames
    THEN Push(st, toLowerCase(name), CandidateBusiness(html, t, name))
    ELSE st

\* strategies 1 to 3: one while loop over the matches of one expression
RECURSIVE scanStrategy(_, _, _, _)
scanStrategy(html, kind, i, st) ==
    IF i > Len(html.toks) THEN st
    ELSE scanStrategy(html, kind, i + 1,
            IF StrategyMatches(kind, html.toks[i])
            THEN MatchStep(html, html.toks[i], CandidateName(html.toks[i]), st)
            ELSE st)

\* the three loops one after the other
RECURSIVE scanStrategies(_, _, _, _)
scanStrategies(html, kinds, k, st) ==
    IF k > Len(kinds) THEN st
    ELSE scanStrategies(html, kinds, k + 1, scanStrategy(html, kinds[k], 1, st))

\* strategies 4 and 5: for (const biz of extracted) if (!seenNames.has(..)) push
RECURSIVE pushUnseen(_, _, _)
pushUnseen(extracted, j, st) ==
    IF j > Len(extracted) THEN st
    ELSE pushUnseen(extracted, j + 1,
            IF toLowerCase(extracted[j].name) \notin st.seenNames
            THEN Push(st, toLowerCase(extracted[j].name), extracted[j])
            ELSE st)

\* strategy 4: every JSON-LD script, skipping those on which JSON.parse or
\* extractFromJsonLd throws
RECURSIVE scanJsonLd(_, _, _)
scanJsonLd(html, i, st) ==
    IF i > Len(html.toks) THEN st
    ELSE scanJsonLd(html, i + 1,
            IF html.toks[i].k = "ld" /\ html.toks[i].json.ok /\ ~processItemThrows(html.toks[i].json)
            THEN pushUnseen(extractFromJsonLd(html.toks[i].json), 1, st)
            ELSE st)

\* the fragments the WIZ expression matches
WizAt(html) == {i \in 1..Len(html.toks) : html.toks[i].k = "wiz"}

\* strategy 5: the first window.__WIZ_DATA__ assignment
scanWizData(html, st) ==
    IF WizAt(html) = {} THEN st
    ELSE pushUnseen(parseWizData(html.toks[SetMin(WizAt(html))].entries), 1, st)

extractBusinessesFromHtml(html) ==
    scanWizData(html,
        scanJsonLd(html, 1,
            scanStrategies(html, <<"js", "aria", "cls">>, 1, NoBusinesses))).businesses

\* ------------------------------------------------------------------------
\* Helper extraction functions
\* ------------------------------------------------------------------------

\* s.replace(/from/g, to) for a literal text
RECURSIVE replaceAll(_, _, _)
replaceAll(s, from, to) ==
    IF s = <<>> THEN <<>>
    ELSE IF HasAt(s, from, 1) THEN to \o replaceAll(SubSeq(s, Len(from) + 1, Len(s)), from, to)
         ELSE <<Head(s)>> \o replaceAll(Tail(s), from, to)

decodeHtmlEntities(text) ==
    trim(replaceAll(replaceAll(replaceAll(replaceAll(replaceAll(replaceAll(text,
        <<"&", "a", "m", "p", ";">>, <<"&">>),
        <<"&", "l", "t", ";">>, <<"<">>),
        <<"&", "g", "t", ";">>, <<">">>),
        <<"&", "q", "u", "o", "t", ";">>, <<"\"">>),
        <<"&", "#", "3", "9", ";">>, <<"'">>),
        <<"&", "n", "b", "s", "p", ";">>, <<" ">>))

contextRatingPatterns ==
    << "(\\d\\.\\d)\\s*\\(",
       "rating[:\\s]*(\\d\\.\\d)",
       "(\\d\\.\\d)\\s*stars?",
       ">(\\d\\.\\d)<\\/span>" >>

\* extractRatingFromContext on html.substring(cs, ce)
extractRatingFromContext(html, cs, ce) == FirstValidRating(html, cs, ce, contextRatingPatterns, 1)

\* rating >= 1 && rating <= 5 ? rating : null
RatingOrNull(rating) == IF Between(rating, 1, 5) THEN rating ELSE null

\* extractRatingFromText: one expression, one match
extractRatingFromText(html) ==
    RatingOrNull(MatchedNumber(html,
        FirstTok(html, 0, html.len,
                 LAMBDA t : RatingMatches("(\\d\\.?\\d?)\\s*(?:\\(|stars?|rating)", t))))

\* extractCoordsFromContext on html.substring(cs, ce)
extractCoordsFromContext(html, cs, ce) ==
    InRangeOrNull(MatchedPair(html, FirstTok(html, cs, ce, AtCoordMatches)))

\* !x for a number or null x
Falsy(x) == x = null \/ x = NaN \/ x = Num(0)

\* parseBusinessDetails: rating && rating >= 1 && rating <= 5 ? rating : null
parseBusinessDetails(name, detailsHtml, cid) ==
    BusinessData(name,
        RatingOrNull(MatchedNumber(detailsHtml,
            FirstTok(detailsHtml, 0, detailsHtml.len,
                     LAMBDA t : RatingMatches("(\\d\\.?\\d?)\\s*\\((\\d+)\\)", t)))),
        null, Text(cid))

parseBusinessFromCardHtml(name, cardHtml) ==
    BusinessData(name, extractRatingFromContext(cardHtml, 0, cardHtml.len), null, null)

EnrichBefore == 200

EnrichAfter == 2000

\* the fields enrichBusinessData fills from html.substring(cs, ce) when they are falsy
EnrichFields(business, html, cs, ce) ==
    [business EXCEPT
        !.rating = IF Falsy(business.rating) THEN extractRatingFromContext(html, cs, ce)
                   ELSE business.rating,
        !.coordinates = IF business.coordinates = null THEN extractCoordsFromContext(html, cs, ce)
                        ELSE business.coordinates]

\* the part of enrichBusinessData after const nameIndex = html.indexOf(business.name)
EnrichAt(business, html, nameIndex) ==
    IF nameIndex = -1 THEN business
    ELSE EnrichFields(business, html,
                      Max(0, nameIndex - EnrichBefore), Min(html.len, nameIndex + EnrichAfter))

\* enrichBusinessData: the record after the in-place update
enrichBusinessData(business, html) == EnrichAt(business, html, htmlIndexOf(html, business.name))

\* ------------------------------------------------------------------------
\* extractFromGoogleLocalSearch and extractFromGoogleSearch
\* ------------------------------------------------------------------------

KgBefore == 200

KgAfter == 1500

\* the knowledge-graph record, read from html.substring(cs, ce)
KgBusiness(html, name, cs, ce) ==
    BusinessData(name, extractRatingFromContext(html, cs, ce),
                 extractCoordsFromContext(html, cs, ce), null)

\* context = html.substring(Math.max(0, html.indexOf(name) - 200), html.indexOf(name) + 1500)
KgAt(html, name, nameIndex) ==
    KgBusiness(html, name, Max(0, nameIndex - KgBefore), Min(html.len, Max(0, nameIndex + KgAfter)))

\* the record a card pattern builds for the fragment it matches
CardBusiness(html, t, name) ==
    CASE t.k = "card" -> parseBusinessDetails(name, t.card, t.cid)
      [] t.k = "osr" -> BusinessData(name, extractRatingFromText(t.card), null, null)
      [] t.k = "vkp" -> parseBusinessFromCardHtml(name, t.card)
      [] t.k = "kg" -> KgAt(html, name, htmlIndexOf(html, name))

\* the body of a while loop over cards for one match
CardStep(html, t, name, st) ==
    IF ~isValidBusinessName(name) \/ toLowerCase(name) \in st.seenNames THEN st
    ELSE Push(st, toLowerCase(name), CardBusiness(html, t, name))

\* what a card expression matches: in a local VkpGBb card the name is a span of 3 to 50
\* characters, elsewhere [^<]+
CardMatches(pattern, t) ==
    /\ t.k = pattern.kind
    /\ Len(t.name) >= pattern.min
    /\ Len(t.name) <= pattern.max

\* one while loop over the matches of one card expression
RECURSIVE scanCards(_, _, _, _)
scanCards(html, pattern, i, st) ==
    IF i > Len(html.toks) THEN st
    ELSE scanCards(html, pattern, i + 1,
            IF CardMatches(pattern, html.toks[i])
            THEN CardStep(html, html.toks[i], decodeHtmlEntities(trim(html.toks[i].name)), st)
            ELSE st)

\* the loops of an extractor one after the other
RECURSIVE scanPatterns(_, _, _, _)
scanPatterns(html, patterns, k, st) ==
    IF k > Len(patterns) THEN st
    ELSE scanPatterns(html, patterns, k + 1, scanCards(html, patterns[k], 1, st))

\* the longest text a fragment of the model holds
AnyLen == 1000 * 1000

cardPattern == [kind |-> "card", min |-> 1, max |-> AnyLen]

altPattern == [kind |-> "osr", min |-> 1, max |-> AnyLen]

vkpPattern == [kind |-> "vkp", min |-> 3, max |-> 50]

localPackPattern == [kind |-> "vkp", min |-> 1, max |-> AnyLen]

kgPattern == [kind |-> "kg", min |-> 1, max |-> AnyLen]

extractFromGoogleLocalSearch(html) ==
    scanPatterns(html, <<cardPattern, altPattern, vkpPattern>>, 1, NoBusinesses).businesses

extractFromGoogleSearch(html) ==
    scanPatterns(html, <<localPackPattern, kgPattern>>, 1, NoBusinesses).businesses

\* ------------------------------------------------------------------------
\* extractDetailedBusiness
\* ------------------------------------------------------------------------

GoogleMapsSuffix == <<" ", "-", " ", "G", "o", "o", "g", "l", "e", " ", "M", "a", "p", "s">>

\* /@(-?\d+\.?\d*),(-?\d+\.?\d*)/
DetailCoordMatches(t) == t.k = "coord" /\ t.amp

\* s.replace(' - Google Maps', ''): the first occurrence, found at position at (0: none)
RemoveAt(s, at, n) ==
    IF at = 0 THEN s ELSE SubSeq(s, 1, at - 1) \o SubSeq(s, at + n, Len(s))

\* business.name: '' unless the title matches
DetailName(html, title) ==
    IF title = 0 THEN <<>>
    ELSE trim(RemoveAt(html.toks[title].name, indexOf(html.toks[title].name, GoogleMapsSuffix),
                       Len(GoogleMapsSuffix)))

\* business.coordinates: the matched pair as parsed
DetailCoordinates(html, coord) == IF coord = 0 THEN null ELSE MatchedPair(html, coord)

\* business.rating: the matched number as parsed
DetailRating(html, rate) == IF rate = 0 THEN null ELSE MatchedNumber(html, rate)

extractDetailedBusiness(html, placeId) ==
    BusinessData(
        DetailName(html, FirstTok(html, 0, html.len, LAMBDA t : t.k = "title" /\ Len(t.name) >= 1)),
        DetailRating(html, FirstTok(html, 0, html.len,
            LAMBDA t : RatingMatches("(\\d\\.?\\d?)\\s*(?:stars?|out of 5)", t))),
        DetailCoordinates(html, FirstTok(html, 0, html.len, DetailCoordMatches)),
        Text(placeId))

\* ------------------------------------------------------------------------
\* scrapeGoogleMaps: one invocation is the record
\* [pc, limit, startIndex, businesses, seenNames, fetched, result]; fetched
\* logs, per strategy reached, what it got: Skipped when it did not run, else the
\* response, which is Threw (proxyFetch or text() rejects), NotOk or Ok(document).
\* ------------------------------------------------------------------------

RECURSIVE ToDigits(_)
ToDigits(n) == IF n < 10 THEN <<DigitSeq[n + 1]>> ELSE ToDigits(n \div 10) \o <<DigitSeq[(n % 10) + 1]>>

\* String(n) for an integer
String(n) == IF n < 0 THEN <<"-">> \o ToDigits(0 - n) ELSE ToDigits(n)

Skipped == [kind |-> "skipped"]

Threw == [kind |-> "throw"]

NotOk == [kind |-> "response", ok |-> FALSE]

Ok(html) == [kind |-> "response", ok |-> TRUE, html |-> html]

NewCall(limit, startIndex) ==
    [pc |-> "local", limit |-> limit, startIndex |-> startIndex, businesses |-> <<>>,
     seenNames |-> {}, fetched |-> <<>>, result |-> null]

\* for (const biz of found) { if (businesses.length >= limit) break; if unseen: add, push }
\* enrich is TRUE for the Maps strategy, which enriches a record before pushing it
\* the loop without the seenNames test
RECURSIVE mergeAll(_, _, _, _, _, _)
mergeAll(found, j, st, limit, enrich, html) ==
    IF j > Len(found) \/ Len(st.businesses) >= limit THEN st
    ELSE mergeAll(found, j + 1,
            Push(st, toLowerCase(found[j].name),
                 IF enrich THEN enrichBusinessData(found[j], html) ELSE found[j]),
            limit, enrich, html)

\* the loop in which a later record takes the place of the one held under its key
RECURSIVE mergeLastWins(_, _, _, _, _, _)
mergeLastWins(found, j, st, limit, enrich, html) ==
    IF j > Len(found) \/ Len(st.businesses) >= limit THEN st
    ELSE mergeLastWins(found, j + 1,
            IF toLowerCase(found[j].name) \notin st.seenNames
            THEN Push(st, toLowerCase(found[j].name),
                      IF enrich THEN enrichBusinessData(found[j], html) ELSE found[j])
            ELSE [st EXCEPT !.businesses =
                    [n \in 1..Len(st.businesses) |->
                        IF toLowerCase(st.businesses[n].name) = toLowerCase(found[j].name)
                        THEN found[j] ELSE st.businesses[n]]],
            limit, enrich, html)

RECURSIVE mergeFound(_, _, _, _, _, _)
mergeFound(found, j, st, limit, enrich, html) ==
    IF j > Len(found) \/ Len(st.businesses) >= limit THEN st
    ELSE mergeFound(found, j + 1,
            IF toLowerCase(found[j].name) \notin st.seenNames
            THEN Push(st, toLowerCase(found[j].name),
                      IF enrich THEN enrichBusinessData(found[j], html) ELSE found[j])
            ELSE st,
            limit, enrich, html)

\* what a strategy's extractor finds in the document it fetched
StrategyFound(strategy, html) ==
    CASE strategy = "local" -> extractFromGoogleLocalSearch(html)
      [] strategy = "maps" -> extractBusinessesFromHtml(html)
      [] strategy = "search" -> extractFromGoogleSearch(html)

NextStrategy(strategy) ==
    CASE strategy = "local" -> "maps" [] strategy = "maps" -> "search" [] strategy = "search" -> "return"

\* the guard in front of the second and the third strategy
AlwaysRun(c) == TRUE

ShouldRun(c) == Len(c.businesses) < c.limit

\* the log entry of a strategy: its name, businesses.length when it was reached, what it got
Fetched(c, got) == [strategy |-> c.pc, held |-> Len(c.businesses), got |-> got]

\* businesses and seenNames of the invocation
Held(c) == [businesses |-> c.businesses, seenNames |-> c.seenNames]

\* the invocation after a strategy that left businesses and seenNames as in st
Merged(c, resp, st) ==
    [c EXCEPT !.pc = NextStrategy(c.pc), !.businesses = st.businesses,
              !.seenNames = st.seenNames, !.fetched = Append(c.fetched, Fetched(c, resp))]

\* the block without its catch: a rejected fetch or a non-OK status ends the chain
RunStrategyAborting(c, resp) ==
    IF resp = Threw \/ ~resp.ok
    THEN [c EXCEPT !.pc = "return", !.fetched = Append(c.fetched, Fetched(c, resp))]
    ELSE Merged(c, resp,
                mergeFound(StrategyFound(c.pc, resp.html), 1, Held(c), c.limit, c.pc = "maps", resp.html))

\* one try { fetch; if (ok) merge } catch { log } block
RunStrategy(c, resp) ==
    Merged(c, resp,
           IF resp = Threw \/ ~resp.ok THEN Held(c)
           ELSE mergeFound(StrategyFound(c.pc, resp.html), 1, Held(c), c.limit, c.pc = "maps", resp.html))

\* if (businesses.length < limit) is false: the strategy is not started
SkipStrategy(c) == [c EXCEPT !.pc = NextStrategy(c.pc), !.fetched = Append(c.fetched, Fetched(c, Skipped))]

\* businesses.slice(0, limit) for limit >= 0
SliceTo(s, n) == SubSeq(s, 1, Min(Len(s), n))

\* the return with the token counted from the first page
ReturnResultFromZero(c) ==
    [c EXCEPT !.pc = "done",
              !.result = [businesses |-> SliceTo(c.businesses, c.limit),
                          totalFound |-> Len(c.businesses),
                          nextPageToken |-> IF Len(c.businesses) >= c.limit
                                            THEN Text(String(c.limit)) ELSE null]]

ReturnResult(c) ==
    [c EXCEPT !.pc = "done",
              !.result = [businesses |-> SliceTo(c.businesses, c.limit),
                          totalFound |-> Len(c.businesses),
                          nextPageToken |-> IF Len(c.businesses) >= c.limit
                                            THEN Text(String(c.startIndex + c.limit)) ELSE null]]

\* ------------------------------------------------------------------------
\* URLs (serp-tracker.ts)
\* ------------------------------------------------------------------------

\* String.prototype.startsWith, String.prototype.endsWith
startsWith(s, t) == HasAt(s, t, 1)

endsWith(s, t) == HasAt(s, t, Len(s) - Len(t) + 1)

\* the last position of the character ch in s, 0 when it does not occur
LastIdx(s, ch) == IF \E i \in 1..Len(s) : s[i] = ch
                  THEN CHOOSE i \in 1..Len(s) : s[i] = ch /\ \A j \in (i + 1)..Len(s) : s[j] # ch
                  ELSE 0

\* the characters of s before the first one that belongs to stops
UpTo(s, stops) == SubSeq(s, 1, MinOr({i \in 1..Len(s) : s[i] \in stops}, Len(s) + 1) - 1)

\* s without its first n characters
Drop(s, n) == SubSeq(s, n + 1, Len(s))

RECURSIVE SkipSlashes(_)
SkipSlashes(s) == IF s # <<>> /\ Head(s) \in {"/", "\\"} THEN SkipSlashes(Tail(s)) ELSE s

\* new URL(url): the scheme is what stands before the first colon, a letter
\* followed by letters, digits, +, - or .
SchemeLen(url) == indexOf(url, <<":">>) - 1

HasScheme(url) ==
    /\ SchemeLen(url) >= 1
    /\ url[1] \in UpperSet \cup LowerSet
    /\ \A j \in 2..SchemeLen(url) : url[j] \in UpperSet \cup LowerSet \cup DigitSet \cup {"+", "-", "."}

\* http and https are special schemes: any run of slashes may follow the colon
SpecialScheme(url) == toLowerCase(SubSeq(url, 1, SchemeLen(url))) \in {<<"h", "t", "t", "p">>, <<"h", "t", "t", "p", "s">>}

\* the authority: for a special scheme what follows the slashes, for another
\* scheme what follows "//", up to the path, the query or the fragment
Authority(url) ==
    IF SpecialScheme(url)
    THEN UpTo(SkipSlashes(Drop(url, SchemeLen(url) + 1)), {"/", "\\", "?", "#"})
    ELSE IF HasAt(url, <<"/", "/">>, SchemeLen(url) + 2)
         THEN UpTo(Drop(url, SchemeLen(url) + 3), {"/", "?", "#"})
         ELSE <<>>

\* host and port: the authority without its user information
HostPort(url) == Drop(Authority(url), LastIdx(Authority(url), "@"))

HostOf(hp) == IF LastIdx(hp, ":") = 0 THEN hp ELSE SubSeq(hp, 1, LastIdx(hp, ":") - 1)

PortOf(hp) == IF LastIdx(hp, ":") = 0 THEN <<>> ELSE Drop(hp, LastIdx(hp, ":"))

\* the characters a host may not hold (a percent sign stands for an escape, which no
\* host of the documents below has)
ForbiddenHostChars == {" ", "#", "/", ":", "<", ">", "?", "@", "[", "\\", "]", "^", "|", "%"}

\* new URL(url) does not throw
UrlParses(url) ==
    /\ HasScheme(url)
    /\ AllDigits(PortOf(HostPort(url)))
    /\ \A i \in 1..Len(HostOf(HostPort(url))) : HostOf(HostPort(url))[i] \notin ForbiddenHostChars
    /\ SpecialScheme(url) => HostOf(HostPort(url)) # <<>>

\* new URL(url).hostname.toLowerCase()
hostname(url) == toLowerCase(HostOf(HostPort(url)))

\* the Google-owned domains isRealExternalUrl blocks
BlockedDomains ==
    { <<"g", "o", "o", "g", "l", "e", ".", "c", "o", "m">>, <<"g", "o", "o", "g", "l", "e", ".", "c", "o", ".", "u", "k">>, <<"g", "o", "o", "g", "l", "e", ".", "c", "a">>, <<"g", "o", "o", "g", "l", "e", ".", "d", "e">>, <<"g", "s", "t", "a", "t", "i", "c", ".", "c", "o", "m">>,
      <<"g", "o", "o", "g", "l", "e", "a", "p", "i", "s", ".", "c", "o", "m">>, <<"g", "o", "o", "g", "l", "e", "u", "s", "e", "r", "c", "o", "n", "t", "e", "n", "t", ".", "c", "o", "m">>, <<"g", "o", "o", "g", "l", "e", "s", "y", "n", "d", "i", "c", "a", "t", "i", "o", "n", ".", "c", "o", "m">>,
      <<"g", "o", "o", "g", "l", "e", "a", "d", "s", "e", "r", "v", "i", "c", "e", "s", ".", "c", "o", "m">>, <<"g", "o", "o", "g", "l", "e", "t", "a", "g", "m", "a", "n", "a", "g", "e", "r", ".", "c", "o", "m">>, <<"g", "o", "o", "g", "l", "e", "-", "a", "n", "a", "l", "y", "t", "i", "c", "s", ".", "c", "o", "m">>,
      <<"y", "o", "u", "t", "u", "b", "e", ".", "c", "o", "m">>, <<"d", "o", "u", "b", "l", "e", "c", "l", "i", "c", "k", ".", "n", "e", "t">>, <<"g", "o", "o", ".", "g", "l">> }

isRealExternalUrl(url) ==
    /\ url # <<>>
    /\ startsWith(url, <<"h", "t", "t", "p">>)
    /\ UrlParses(url)
    /\ \A d \in BlockedDomains : ~endsWith(hostname(url), d)
    /\ hostname(url) # <<"l", "o", "c", "a", "l", "h", "o", "s", "t">>
    /\ ~includes(url, <<"/", "h", "t", "t", "p", "s", "e", "r", "v", "i", "c", "e", "/">>)

\* decodeURIComponent: the number of continuation bytes the byte b announces,
\* -1 for a byte that cannot start a character
Continuations(b) ==
    IF b < 128 THEN 0
    ELSE IF b >= 194 /\ b <= 223 THEN 1
    ELSE IF b >= 224 /\ b <= 239 THEN 2
    ELSE IF b >= 240 /\ b <= 244 THEN 3
    ELSE -1

\* s holds an escape %XX at position i
EscapeAt(s, i) == i + 2 <= Len(s) /\ s[i] = "%" /\ IsHex(s[i + 1]) /\ IsHex(s[i + 2])

EscapeByte(s, i) == parseHex(SubSeq(s, i + 1, i + 2))

\* the n escapes from position i on are continuation bytes
ContinuationsAt(s, i, n) ==
    \A j \in 0..(n - 1) :
        EscapeAt(s, i + 3 * j) /\ EscapeByte(s, i + 3 * j) >= 128 /\ EscapeByte(s, i + 3 * j) <= 191

\* one decoded character put before the rest
Decoded(ch, rest) == [ok |-> rest.ok, text |-> <<ch>> \o rest.text]

\* [ok |-> TRUE, text |-> the decoded text], or ok = FALSE for a URIError
RECURSIVE decodeFrom(_, _)
decodeFrom(s, i) ==
    IF i > Len(s) THEN [ok |-> TRUE, text |-> <<>>]
    ELSE IF s[i] # "%" THEN Decoded(s[i], decodeFrom(s, i + 1))
    ELSE IF /\ EscapeAt(s, i)
            /\ Continuations(EscapeByte(s, i)) >= 0
            /\ ContinuationsAt(s, i + 3, Continuations(EscapeByte(s, i)))
         THEN Decoded(fromCharCode(EscapeByte(s, i)),
                      decodeFrom(s, i + 3 + 3 * Continuations(EscapeByte(s, i))))
         ELSE [ok |-> FALSE, text |-> <<>>]

decodeURIComponent(s) == decodeFrom(s, 1)

\* url.match(/[?&](?:q|url)=([^&]+)/): the match starts at position p
QueryParamAt(url, p) ==
    /\ url[p] \in {"?", "&"}
    /\ \/ HasAt(url, <<"q", "=">>, p + 1) /\ p + 3 <= Len(url) /\ url[p + 3] # "&"
       \/ HasAt(url, <<"u", "r", "l", "=">>, p + 1) /\ p + 5 <= Len(url) /\ url[p + 5] # "&"

\* the group written (.+): everything behind the parameter name
QueryParamRest(url, p) == Drop(url, IF HasAt(url, <<"q", "=">>, p + 1) THEN p + 2 ELSE p + 4)

\* match[1] of the match that starts at p
QueryParamValue(url, p) ==
    UpTo(Drop(url, IF HasAt(url, <<"q", "=">>, p + 1) THEN p + 2 ELSE p + 4), {"&"})

\* decoded is what decodeURIComponent gave: a thrown URIError is not caught
ResolveDecoded(decoded) ==
    IF ~decoded.ok THEN Threw
    ELSE IF isRealExternalUrl(decoded.text) THEN Text(decoded.text) ELSE null

\* p: where the redirect parameter matches, 0 when it does not
ResolveRedirect(url, p) ==
    IF p = 0 THEN null ELSE ResolveDecoded(decodeURIComponent(QueryParamValue(url, p)))

\* string | null, or Threw
resolveGoogleUrl(url) ==
    IF includes(url, <<"/", "u", "r", "l", "?">>)
    THEN ResolveRedirect(url, MinOr({p \in 1..Len(url) : QueryParamAt(url, p)}, 0))
    ELSE IF isRealExternalUrl(url) THEN Text(url) ELSE null

\* ------------------------------------------------------------------------
\* Documents of the search pipeline (serp-tracker.ts)
\*
\* html == [len |-> length of the text, toks |-> the markup, item by item]
\*   [k |-> "open",  at, tag, attrs]   <TAG N1="V1" N2="V2">  (attrs: sequence of [n, v])
\*   [k |-> "close", at, tag]          </TAG>
\*   [k |-> "text",  at, text]         character data
\*   [k |-> "space", at, w]            w characters of white space
\* `at` is the 0-based offset of the item. An expression of the source is a
\* scan over the items: <TAG[^>]*N="[^"]*X[^"]*"[^>]*> is an opening tag with
\* an attribute N whose value holds X, [^<]+ is character data, [\s\S]*? runs
\* to the nearest item that lets the rest match.
\* ------------------------------------------------------------------------

OpenTag(tag, attrs) == [k |-> "open", at |-> 0, tag |-> tag, attrs |-> attrs]

CloseTag(tag) == [k |-> "close", at |-> 0, tag |-> tag]

TextNode(text) == [k |-> "text", at |-> 0, text |-> text]

WhiteSpace(w) == [k |-> "space", at |-> 0, w |-> w]

Attr(n, v) == [n |-> n, v |-> v]

RECURSIVE AttrsWidth(_, _)
AttrsWidth(attrs, i) ==
    IF i > Len(attrs) THEN 0 ELSE Len(attrs[i].n) + Len(attrs[i].v) + 4 + AttrsWidth(attrs, i + 1)

ItemWidth(x) ==
    CASE x.k = "open" -> Len(x.tag) + 2 + AttrsWidth(x.attrs, 1)
      [] x.k = "close" -> Len(x.tag) + 3
      [] x.k = "text" -> Len(x.text)
      [] x.k = "space" -> x.w

\* the 0-based offset of the first character after item i
EndOf(toks, i) == toks[i].at + ItemWidth(toks[i])

\* the least element of S, 0 when S is empty
First(S) == MinOr(S, 0)

IsOpen(x, tag) == x.k = "open" /\ x.tag = tag

IsClose(x, tag) == x.k = "close" /\ x.tag = tag

HasAttr(x, n) == x.k = "open" /\ \E i \in 1..Len(x.attrs) : x.attrs[i].n = n

\* the place and the value of the first attribute named n
AttrPos(x, n) == First({i \in 1..Len(x.attrs) : x.attrs[i].n = n})

AttrVal(x, n) == x.attrs[AttrPos(x, n)].v

\* the value holds one of the alternatives, letter case ignored (alts in lower case)
ValueHas(v, alts) == \E a \in alts : includes(toLowerCase(v), a)

\* N="[^"]*(?:A|B)[^"]*" in an opening tag
AttrHas(x, n, alts) ==
    x.k = "open" /\ \E i \in 1..Len(x.attrs) : x.attrs[i].n = n /\ ValueHas(x.attrs[i].v, alts)

\* href="([^"]+)": the attribute is there and its value is not empty
HasHref(x) == HasAttr(x, "href") /\ AttrVal(x, "href") # <<>>

\* the value starts with one of the prefixes (letter case ignored) and goes on
StartsOneOf(v, prefixes) == \E p \in prefixes : startsWith(toLowerCase(v), p) /\ Len(v) > Len(p)

\* \s* between two tags
IsWhite(x) ==
    \/ x.k = "space"
    \/ x.k = "text" /\ \A i \in 1..Len(x.text) : x.text[i] \in WhiteSet

\* the first item after item i that is not white space, Len(toks) + 1 at the end of the text
NextNonWhite(toks, i) == MinOr({j \in (i + 1)..Len(toks) : ~IsWhite(toks[j])}, Len(toks) + 1)

\* [^<]+ between two tags: character data
IsPlain(x) == (x.k = "text" /\ x.text # <<>>) \/ (x.k = "space" /\ x.w > 0)

ItemText(x) ==
    CASE x.k = "text" -> x.text
      [] x.k = "space" -> [i \in 1..x.w |-> " "]
      [] OTHER -> <<>>

\* the markup of the items a..b with every tag removed
RECURSIVE InnerText(_, _, _)
InnerText(toks, a, b) == IF a > b THEN <<>> ELSE ItemText(toks[a]) \o InnerText(toks, a + 1, b)

\* stripTags of the markup of the items a..b
stripTags(toks, a, b) == trim(InnerText(toks, a, b))

\* the nearest closing tag of the items i+1..b, 0 when there is none
CloseAfter(toks, i, b, tag) == First({j \in (i + 1)..b : IsClose(toks[j], tag)})

\* <TAG[^>]*>([^<]+)</TAG> stands at item i
PlainElementAt(toks, i, b, tag) ==
    i + 2 <= b /\ IsOpen(toks[i], tag) /\ IsPlain(toks[i + 1]) /\ IsClose(toks[i + 2], tag)

\* the items with their offsets, from offset at on
RECURSIVE PlaceItems(_, _, _)
PlaceItems(items, i, at) ==
    IF i > Len(items) THEN <<>>
    ELSE <<[items[i] EXCEPT !.at = at]>> \o PlaceItems(items, i + 1, at + ItemWidth(items[i]))

\* the fragments one after the other, gap characters of white space between two of them
RECURSIVE JoinFragments(_, _, _)
JoinFragments(frags, i, gap) ==
    IF i > Len(frags) THEN <<>>
    ELSE (IF i > 1 /\ gap > 0 THEN <<WhiteSpace(gap)>> ELSE <<>>)
         \o frags[i] \o JoinFragments(frags, i + 1, gap)

Page(placed) ==
    [len |-> IF placed = <<>> THEN 0 ELSE EndOf(placed, Len(placed)), toks |-> placed]

SerpDoc(frags, gap) == Page(PlaceItems(JoinFragments(frags, 1, gap), 1, 0))

\* html.includes(s) for a text s without markup characters
pageIncludes(html, s) ==
    \E i \in 1..Len(html.toks) :
        \/ html.toks[i].k = "text" /\ includes(html.toks[i].text, s)
        \/ html.toks[i].k = "open"
           /\ \E j \in 1..Len(html.toks[i].attrs) : includes(html.toks[i].attrs[j].v, s)

\* ------------------------------------------------------------------------
\* extractOrganicResults (position, title, url, snippet, sitelinks; the other
\* fields of the source's record are not modelled). The scan state is
\* [results, seenUrls, threw]; threw: resolveGoogleUrl raised a URIError,
\* which nothing in the extractor catches.
\* ------------------------------------------------------------------------

Returned(value) == [kind |-> "return", value |-> value]

NoMatch == [hit |-> FALSE, text |-> <<>>]

Hit(text) == [hit |-> TRUE, text |-> text]

\* for (const pattern of patterns) { if (match) { text = ..; if (text.length > min) break; } }
RECURSIVE LoopHits(_, _, _, _)
LoopHits(hits, k, min, cur) ==
    IF k > Len(hits) THEN cur
    ELSE IF ~hits[k].hit THEN LoopHits(hits, k + 1, min, cur)
    ELSE IF Len(hits[k].text) > min THEN hits[k].text
    ELSE LoopHits(hits, k + 1, min, hits[k].text)

\* the first <TAG ..>([^<]+)</TAG> of the items a..b whose opening tag satisfies P
FirstPlain(toks, a, b, tag, P(_)) ==
    First({i \in a..b : PlainElementAt(toks, i, b, tag) /\ P(toks[i])})

\* the first <TAG ..>([\s\S]*?)</TAG> of the items a..b whose opening tag satisfies P
FirstElement(toks, a, b, tag, P(_)) ==
    First({i \in a..b : IsOpen(toks[i], tag) /\ P(toks[i]) /\ CloseAfter(toks, i, b, tag) # 0})

\* stripTags(match[1]) for the element at item i, '' when there is no match
PlainText(toks, i) == IF i = 0 THEN <<>> ELSE trim(ItemText(toks[i + 1]))

ElementText(toks, i, b, tag) ==
    IF i = 0 THEN <<>> ELSE stripTags(toks, i + 1, CloseAfter(toks, i, b, tag) - 1)

PlainHit(toks, i) == IF i = 0 THEN NoMatch ELSE Hit(PlainText(toks, i))

ElementHit(toks, i, b, tag) == IF i = 0 THEN NoMatch ELSE Hit(ElementText(toks, i, b, tag))

AnyTag(x) == TRUE

NoResults == [results |-> <<>>, seenUrls |-> {}, threw |-> FALSE]

OrganicResult(position, title, url, snippet, sitelinks) ==
    [position |-> position, title |-> title, url |-> url, snippet |-> snippet,
     sitelinks |-> sitelinks]

\* -- extractSitelinks on the items a..b of a block

Sitelink(title, url) == [title |-> title, url |-> url]

\* <a[^>]*class="[^"]*(?:fl|sitelink)[^"]*"[^>]*href="([^"]+)"[^>]*>: the places of
\* the href attributes that stand behind such a class attribute
SitelinkHrefs(x) ==
    {j \in 1..Len(x.attrs) :
        /\ x.attrs[j].n = "href" /\ x.attrs[j].v # <<>>
        /\ \E i \in 1..(j - 1) : x.attrs[i].n = "class" /\ ValueHas(x.attrs[i].v, {<<"f", "l">>, <<"s", "i", "t", "e", "l", "i", "n", "k">>})}

\* [^>]* is greedy: the last of them is the one captured
LastHref(x) == CHOOSE j \in SitelinkHrefs(x) : \A k \in SitelinkHrefs(x) : k <= j

\* the expression matches at item i: the link's text is plain, ([^<]+)
SitelinkAt(toks, i, b) == PlainElementAt(toks, i, b, "a") /\ SitelinkHrefs(toks[i]) # {}

\* if (title && !url.includes('google.com')) sitelinks.push({ title, url })
SitelinkStep(title, url) ==
    IF title # <<>> /\ ~includes(url, <<"g", "o", "o", "g", "l", "e", ".", "c", "o", "m">>)
    THEN <<Sitelink(decodeHtmlEntities(title), url)>> ELSE <<>>

RECURSIVE extractSitelinks(_, _, _)
extractSitelinks(toks, a, b) ==
    IF a > b THEN <<>>
    ELSE IF SitelinkAt(toks, a, b)
         THEN SitelinkStep(trim(ItemText(toks[a + 1])), toks[a].attrs[LastHref(toks[a])].v)
              \o extractSitelinks(toks, a + 3, b)
         ELSE extractSitelinks(toks, a + 1, b)

\* /^(?:cached|similar|translate|more results|sign in|help)$/i
NavTitles == {<<"c", "a", "c", "h", "e", "d">>, <<"s", "i", "m", "i", "l", "a", "r">>, <<"t", "r", "a", "n", "s", "l", "a", "t", "e">>, <<"m", "o", "r", "e", " ", "r", "e", "s", "u", "l", "t", "s">>, <<"s", "i", "g", "n", " ", "i", "n">>, <<"h", "e", "l", "p">>}

\* what addResult accepts once the URL is resolved
AcceptsResult(st, resolved, title) ==
    /\ resolved # null
    /\ resolved.text \notin st.seenUrls
    /\ Len(title) >= 3
    /\ toLowerCase(title) \notin NavTitles

PushResult(st, url, title, snippet, sitelinks) ==
    [st EXCEPT !.seenUrls = @ \cup {url},
               !.results = Append(@, OrganicResult(Len(@) + 1, decodeHtmlEntities(title), url,
                                                   decodeHtmlEntities(snippet), sitelinks))]

AddResolved(st, resolved, title, snippet, sitelinks) ==
    IF resolved = Threw THEN [st EXCEPT !.threw = TRUE]
    ELSE IF AcceptsResult(st, resolved, title)
         THEN PushResult(st, resolved.text, title, snippet, sitelinks)
    ELSE st

\* sitelinks: blockHtml ? extractSitelinks(blockHtml) : [], as the caller passes the block
addResult(st, url, title, snippet, sitelinks) ==
    IF st.threw THEN st ELSE AddResolved(st, resolveGoogleUrl(url), title, snippet, sitelinks)

\* -- parseOrganicBlock on the items a..b

\* /<a[^>]*href="((?:\/url\?q=|https?:\/\/)[^"]+)"[^>]*>/i
LinkPrefixes == {<<"/", "u", "r", "l", "?", "q", "=">>, <<"h", "t", "t", "p", ":", "/", "/">>, <<"h", "t", "t", "p", "s", ":", "/", "/">>}

BlockLink(toks, a, b) ==
    First({i \in a..b : IsOpen(toks[i], "a") /\ HasHref(toks[i])
                        /\ StartsOneOf(AttrVal(toks[i], "href"), LinkPrefixes)})

RoleHeading(x) == HasAttr(x, "role") /\ toLowerCase(AttrVal(x, "role")) = <<"h", "e", "a", "d", "i", "n", "g">>

\* /<a[^>]*href="[^"]*"[^>]*><div[^>]*>([^<]+)<\/div>/i: the item of the <div>
LinkedDiv(toks, a, b) ==
    First({i \in a..b : i > a /\ IsOpen(toks[i - 1], "a") /\ HasAttr(toks[i - 1], "href")
                        /\ PlainElementAt(toks, i, b, "div")})

titlePatterns(toks, a, b) ==
    << PlainHit(toks, FirstPlain(toks, a, b, "h3", AnyTag)),
       PlainHit(toks, FirstPlain(toks, a, b, "div", RoleHeading)),
       ElementHit(toks, FirstElement(toks, a, b, "h3", AnyTag), b, "h3"),
       PlainHit(toks, LinkedDiv(toks, a, b)) >>

SnippetDiv(x) == AttrHas(x, "class", {<<"v", "w", "i", "c", "3", "b">>, <<"i", "s", "z", "v", "e", "c">>, <<"s", "3", "v", "9", "r", "d">>})

SnippetSpan(x) == AttrHas(x, "class", {<<"a", "c", "o", "p", "r", "e">>, <<"s", "t">>})

SncfDiv(x) == HasAttr(x, "data-sncf")

\* decodeHtmlEntities(stripTags(snippetMatch[1])).trim()
DecodedHit(h) == IF h.hit THEN Hit(trim(decodeHtmlEntities(h.text))) ELSE h

snippetPatterns(toks, a, b) ==
    << DecodedHit(ElementHit(toks, FirstElement(toks, a, b, "div", SnippetDiv), b, "div")),
       DecodedHit(ElementHit(toks, FirstElement(toks, a, b, "span", SnippetSpan), b, "span")),
       DecodedHit(ElementHit(toks, FirstElement(toks, a, b, "div", SncfDiv), b, "div")) >>

ParsedTitled(toks, a, b, url, title) ==
    IF title = <<>> THEN null
    ELSE [title |-> decodeHtmlEntities(title), url |-> url,
          snippet |-> LoopHits(snippetPatterns(toks, a, b), 1, 10, <<>>)]

ParsedResolved(toks, a, b, resolved) ==
    IF resolved = Threw THEN Threw
    ELSE IF resolved = null THEN null
    ELSE ParsedTitled(toks, a, b, resolved.text, LoopHits(titlePatterns(toks, a, b), 1, 2, <<>>))

ParsedLinked(toks, a, b, link) ==
    IF link = 0 THEN null
    ELSE ParsedResolved(toks, a, b, resolveGoogleUrl(AttrVal(toks[link], "href")))

\* null, the parsed result, or Threw
parseOrganicBlock(toks, a, b) == ParsedLinked(toks, a, b, BlockLink(toks, a, b))

\* -- Strategy 1: standard result blocks

\* class="[^"]*g\b: a g that ends a word of the class value
EndsWordG(v) ==
    \E p \in 1..Len(v) :
        /\ v[p] \in {"g", "G"}
        /\ p = Len(v) \/ v[p + 1] \notin UpperSet \cup LowerSet \cup DigitSet \cup {"_"}

\* <div[^>]*class="[^"]*(?:MjjYud|Gx5Zad|g\b)[^"]*"[^>]*>
ResultDiv(x) ==
    /\ IsOpen(x, "div")
    /\ \/ AttrHas(x, "class", {<<"m", "j", "j", "y", "u", "d">>, <<"g", "x", "5", "z", "a", "d">>})
       \/ \E i \in 1..Len(x.attrs) : x.attrs[i].n = "class" /\ EndsWordG(x.attrs[i].v)

\* <\/div>\s*(?=<div[^>]*class="[^"]*(?:MjjYud|Gx5Zad|g\b)|<footer|$)
BlockEndAt(toks, j) ==
    /\ IsClose(toks[j], "div")
    /\ \/ NextNonWhite(toks, j) > Len(toks)
       \/ ResultDiv(toks[NextNonWhite(toks, j)])
       \/ IsOpen(toks[NextNonWhite(toks, j)], "footer")

BlockStep(st, parsed, sitelinks) ==
    IF parsed = Threw THEN [st EXCEPT !.threw = TRUE]
    ELSE IF parsed = null THEN st
    ELSE addResult(st, parsed.url, parsed.title, parsed.snippet, sitelinks)

RECURSIVE scanBlocks(_, _, _)
RECURSIVE BlockFrom(_, _, _)
RECURSIVE BlockTo(_, _, _, _)
scanBlocks(toks, pos, st) ==
    BlockFrom(toks, First({i \in pos..Len(toks) : ResultDiv(toks[i])}), st)

BlockFrom(toks, start, st) ==
    IF start = 0 \/ st.threw THEN st
    ELSE BlockTo(toks, start, First({j \in (start + 1)..Len(toks) : BlockEndAt(toks, j)}), st)

BlockTo(toks, start, end, st) ==
    IF end = 0 THEN st
    ELSE scanBlocks(toks, end + 1, BlockStep(st, parseOrganicBlock(toks, start + 1, end - 1),
                                 extractSitelinks(toks, start + 1, end - 1)))

\* -- Strategy 2: <h3 class="r"><a href="..">Title</a></h3>, the snippet span right behind

\* the first </a> after the link that white space alone separates from a </h3>
BasicClose(toks, link) ==
    First({j \in (link + 1)..Len(toks) :
        /\ IsClose(toks[j], "a")
        /\ NextNonWhite(toks, j) <= Len(toks)
        /\ IsClose(toks[NextNonWhite(toks, j)], "h3")})

\* <h3[^>]*class="[^"]*r[^"]*"[^>]*>\s*<a[^>]*href="([^"]+)"[^>]*>([\s\S]*?)<\/a>\s*<\/h3>
BasicAt(toks, i) ==
    /\ IsOpen(toks[i], "h3")
    /\ AttrHas(toks[i], "class", {<<"r">>})
    /\ NextNonWhite(toks, i) <= Len(toks)
    /\ IsOpen(toks[NextNonWhite(toks, i)], "a")
    /\ HasHref(toks[NextNonWhite(toks, i)])
    /\ BasicClose(toks, NextNonWhite(toks, i)) # 0

\* (?:<span[^>]*class="[^"]*(?:st|aCOpRe)[^"]*"[^>]*>([\s\S]*?)<\/span>)? right after </h3>
BasicSnippetAt(toks, s) ==
    /\ s <= Len(toks)
    /\ IsOpen(toks[s], "span")
    /\ AttrHas(toks[s], "class", {<<"s", "t">>, <<"a", "c", "o", "p", "r", "e">>})
    /\ CloseAfter(toks, s, Len(toks), "span") # 0

RECURSIVE scanBasic(_, _, _)
RECURSIVE BasicFrom(_, _, _)
RECURSIVE BasicMatch(_, _, _, _)
RECURSIVE BasicMatched(_, _, _, _, _)
scanBasic(toks, pos, st) == BasicFrom(toks, First({i \in pos..Len(toks) : BasicAt(toks, i)}), st)

BasicFrom(toks, i, st) ==
    IF i = 0 \/ st.threw THEN st
    ELSE BasicMatch(toks, NextNonWhite(toks, i), BasicClose(toks, NextNonWhite(toks, i)), st)

BasicMatch(toks, link, close, st) ==
    BasicMatched(toks, link, close, NextNonWhite(toks, close) + 1, st)

\* s: the item behind </h3>
BasicMatched(toks, link, close, s, st) ==
    IF BasicSnippetAt(toks, s)
    THEN scanBasic(toks, CloseAfter(toks, s, Len(toks), "span") + 1,
                   addResult(st, AttrVal(toks[link], "href"), stripTags(toks, link + 1, close - 1),
                             ElementText(toks, s, Len(toks), "span"), <<>>))
    ELSE scanBasic(toks, s,
                   addResult(st, AttrVal(toks[link], "href"), stripTags(toks, link + 1, close - 1),
                             <<>>, <<>>))

\* -- Strategy 3: <div class="g"> blocks

GDiv(x) ==
    /\ IsOpen(x, "div")
    /\ Len(x.attrs) = 1
    /\ x.attrs[1].n = "class"
    /\ toLowerCase(x.attrs[1].v) = <<"g">>

\* <\/div>\s*(?=<div class="g">|$)
GBlockEndAt(toks, j) ==
    /\ IsClose(toks[j], "div")
    /\ \/ NextNonWhite(toks, j) > Len(toks)
       \/ GDiv(toks[NextNonWhite(toks, j)])

StSpan(x) == AttrHas(x, "class", {<<"s", "t">>})

SDiv(x) == AttrHas(x, "class", {<<"s">>})

\* stripTags(snippetMatch?.[1] || ''): the st span, else the s div
GBlockSnippet(toks, a, b, span) ==
    IF span # 0 THEN ElementText(toks, span, b, "span")
    ELSE ElementText(toks, FirstElement(toks, a, b, "div", SDiv), b, "div")

\* if (!linkMatch) continue
GBlockStep(toks, a, b, link, st) ==
    IF link = 0 THEN st
    ELSE addResult(st, AttrVal(toks[link], "href"), ElementText(toks, link, b, "a"),
                   GBlockSnippet(toks, a, b, FirstElement(toks, a, b, "span", StSpan)),
                   extractSitelinks(toks, a, b))

RECURSIVE scanGBlocks(_, _, _)
RECURSIVE GBlockFrom(_, _, _)
RECURSIVE GBlockTo(_, _, _, _)
scanGBlocks(toks, pos, st) == GBlockFrom(toks, First({i \in pos..Len(toks) : GDiv(toks[i])}), st)

GBlockFrom(toks, start, st) ==
    IF start = 0 \/ st.threw THEN st
    ELSE GBlockTo(toks, start, First({j \in (start + 1)..Len(toks) : GBlockEndAt(toks, j)}), st)

GBlockTo(toks, start, end, st) ==
    IF end = 0 THEN st
    ELSE scanGBlocks(toks, end + 1,
                     GBlockStep(toks, start + 1, end - 1,
                                FirstElement(toks, start + 1, end - 1, "a", HasHref), st))

\* -- Strategy 4: any <a href="/url?q=..">, the snippet looked for behind the link

AfterLinkWindow == 1000

MinSnippetLen == 20

MaxSnippetLen == 300

SnippetTags == {"span", "div", "td"}

\* the nearest closing tag that leaves 20 to 300 characters behind the opening tag i
SnippetClose(toks, i, to) ==
    First({j \in (i + 1)..Len(toks) :
        /\ toks[j].k = "close"
        /\ toks[j].tag \in SnippetTags
        /\ EndOf(toks, j) <= to
        /\ toks[j].at - EndOf(toks, i) >= MinSnippetLen
        /\ toks[j].at - EndOf(toks, i) <= MaxSnippetLen})

\* afterLink.match(/<(?:span|div|td)[^>]*>([\s\S]{20,300}?)<\/(?:span|div|td)>/i) in html.substring(from, to)
SnippetOpen(toks, from, to) ==
    First({i \in 1..Len(toks) :
        /\ toks[i].k = "open"
        /\ toks[i].tag \in SnippetTags
        /\ toks[i].at >= from
        /\ EndOf(toks, i) <= to
        /\ SnippetClose(toks, i, to) # 0})

AfterLinkSnippet(toks, open, to) ==
    IF open = 0 THEN <<>> ELSE stripTags(toks, open + 1, SnippetClose(toks, open, to) - 1)

\* /<a[^>]*href="(\/url\?q=[^"]+)"[^>]*>([\s\S]*?)<\/a>/gi
RedirectLink(toks, i) ==
    /\ IsOpen(toks[i], "a")
    /\ HasHref(toks[i])
    /\ StartsOneOf(AttrVal(toks[i], "href"), {<<"/", "u", "r", "l", "?", "q", "=">>})
    /\ CloseAfter(toks, i, Len(toks), "a") # 0

RECURSIVE scanRedirectLinks(_, _, _)
RECURSIVE RedirectLinkFrom(_, _, _)
RECURSIVE RedirectLinkTo(_, _, _, _)
scanRedirectLinks(toks, pos, st) ==
    RedirectLinkFrom(toks, First({i \in pos..Len(toks) : RedirectLink(toks, i)}), st)

RedirectLinkFrom(toks, i, st) ==
    IF i = 0 \/ st.threw THEN st
    ELSE RedirectLinkTo(toks, i, CloseAfter(toks, i, Len(toks), "a"), st)

RedirectLinkTo(toks, i, close, st) ==
    scanRedirectLinks(toks, close + 1,
        addResult(st, AttrVal(toks[i], "href"), stripTags(toks, i + 1, close - 1),
                  AfterLinkSnippet(toks,
                      SnippetOpen(toks, EndOf(toks, close), EndOf(toks, close) + AfterLinkWindow),
                      EndOf(toks, close) + AfterLinkWindow),
                  <<>>))

\* -- Strategy 5: direct external links

MinDirectTitle == 5

MaxDirectTitle == 200

\* /^(?:here|click|next|prev|more|sign|log|help|learn|about)/i
NavPrefixes ==
    {<<"h", "e", "r", "e">>, <<"c", "l", "i", "c", "k">>, <<"n", "e", "x", "t">>, <<"p", "r", "e", "v">>, <<"m", "o", "r", "e">>, <<"s", "i", "g", "n">>, <<"l", "o", "g">>, <<"h", "e", "l", "p">>, <<"l", "e", "a", "r", "n">>, <<"a", "b", "o", "u", "t">>}

\* /<a[^>]*href="(https?:\/\/[^"]+)"[^>]*>([\s\S]*?)<\/a>/gi
DirectLink(toks, i) ==
    /\ IsOpen(toks[i], "a")
    /\ HasHref(toks[i])
    /\ StartsOneOf(AttrVal(toks[i], "href"), {<<"h", "t", "t", "p", ":", "/", "/">>, <<"h", "t", "t", "p", "s", ":", "/", "/">>})
    /\ CloseAfter(toks, i, Len(toks), "a") # 0

DirectStep(st, url, title) ==
    IF \/ Len(title) < MinDirectTitle
       \/ Len(title) > MaxDirectTitle
       \/ \E p \in NavPrefixes : startsWith(toLowerCase(title), p)
    THEN st
    ELSE addResult(st, url, title, <<>>, <<>>)

RECURSIVE scanDirectLinks(_, _, _)
RECURSIVE DirectLinkFrom(_, _, _)
scanDirectLinks(toks, pos, st) ==
    DirectLinkFrom(toks, First({i \in pos..Len(toks) : DirectLink(toks, i)}), st)

DirectLinkFrom(toks, i, st) ==
    IF i = 0 \/ st.threw THEN st
    ELSE scanDirectLinks(toks, CloseAfter(toks, i, Len(toks), "a") + 1,
             DirectStep(st, AttrVal(toks[i], "href"),
                        stripTags(toks, i + 1, CloseAfter(toks, i, Len(toks), "a") - 1)))

\* -- the strategies in order, each fallback only while nothing is accepted

\* a fallback that runs whatever the earlier strategies accepted
FallbackAlways(st) == ~st.threw

\* if (results.length === 0)
FallbackRuns(st) == ~st.threw /\ st.results = <<>>

OrganicStrategy(n, toks, st) ==
    CASE n = 1 -> scanBlocks(toks, 1, st)
      [] n = 2 -> IF FallbackRuns(st) THEN scanBasic(toks, 1, st) ELSE st
      [] n = 3 -> IF FallbackRuns(st) THEN scanGBlocks(toks, 1, st) ELSE st
      [] n = 4 -> IF FallbackRuns(st) THEN scanRedirectLinks(toks, 1, st) ELSE st
      [] n = 5 -> IF FallbackRuns(st) THEN scanDirectLinks(toks, 1, st) ELSE st

RECURSIVE OrganicStrategies(_, _, _)
OrganicStrategies(n, toks, st) ==
    IF n > 5 THEN st ELSE OrganicStrategies(n + 1, toks, OrganicStrategy(n, toks, st))

\* Returned(results), or Threw
Outcome(st) == IF st.threw THEN Threw ELSE Returned(st.results)

extractOrganicResults(html) == Outcome(OrganicStrategies(1, html.toks, NoResults))

\* ------------------------------------------------------------------------
\* extractAds (position, title, url, isTop; description and displayUrl are not
\* modelled). The scan state is [ads, seenUrls, threw]; threw:
\* decodeURIComponent raised a URIError, which nothing in the extractor catches.
\* ------------------------------------------------------------------------

AdResult(position, title, url, isTop) ==
    [position |-> position, title |-> title, url |-> url, isTop |-> isTop]

NoAds == [ads |-> <<>>, seenUrls |-> {}, threw |-> FALSE]

\* url.match(/(?:adurl|dest)=([^&]+)/): the match starts at position p
AdParamAt(url, p) ==
    \/ HasAt(url, <<"a", "d", "u", "r", "l", "=">>, p) /\ p + 6 <= Len(url) /\ url[p + 6] # "&"
    \/ HasAt(url, <<"d", "e", "s", "t", "=">>, p) /\ p + 5 <= Len(url) /\ url[p + 5] # "&"

AdParamValue(url, p) == UpTo(Drop(url, IF HasAt(url, <<"a", "d", "u", "r", "l", "=">>, p) THEN p + 5 ELSE p + 4), {"&"})

\* url.startsWith('/aclk') || url.includes('googleadservices')
IsAdRedirect(url) == startsWith(url, <<"/", "a", "c", "l", "k">>) \/ includes(url, <<"g", "o", "o", "g", "l", "e", "a", "d", "s", "e", "r", "v", "i", "c", "e", "s">>)

AdTarget(decoded) == IF decoded.ok THEN Text(decoded.text) ELSE Threw

\* the URL of an ad: Text(url), Threw, or otherwise (a redirect without target) what the caller passes
AdUrl(url, p, otherwise) ==
    IF ~IsAdRedirect(url) THEN Text(url)
    ELSE IF p = 0 THEN otherwise
    ELSE AdTarget(decodeURIComponent(AdParamValue(url, p)))

AdParamPos(url) == First({p \in 1..Len(url) : AdParamAt(url, p)})

\* -- parseAdSection on the items a..b: [ads, threw]

IsAdMarker(at) == at.n = "data-rw" \/ (at.n = "class" /\ ValueHas(at.v, {<<"s", "v", "x", "r", "q", "c">>, <<"k", "r", "n", "i", "l">>}))

\* the greatest element of S, 0 when S is empty
Last(S) == IF S = {} THEN 0 ELSE CHOOSE x \in S : \A y \in S : y <= x

\* the last href="([^"]+)" of the tag that stands behind a data-rw or an ad class, 0 for none
AdHrefPos(x) ==
    Last({i \in 1..Len(x.attrs) :
        /\ x.attrs[i].n = "href"
        /\ x.attrs[i].v # <<>>
        /\ \E m \in 1..(i - 1) : IsAdMarker(x.attrs[m])})

\* /<a[^>]*(?:data-rw|class="[^"]*(?:sVXRqc|Krnil)[^"]*")[^>]*href="([^"]+)"[^>]*>([\s\S]*?)<\/a>/gi
AdLink(toks, i, b) ==
    IsOpen(toks[i], "a") /\ AdHrefPos(toks[i]) # 0 /\ CloseAfter(toks, i, b, "a") # 0

\* if (!isRealExternalUrl(url)) continue; if (!title) continue; ads.push(..)
AdStep(sec, url, title, isTop) ==
    IF url = Threw THEN [sec EXCEPT !.threw = TRUE]
    ELSE IF url = null THEN sec
    ELSE IF ~isRealExternalUrl(url.text) \/ title = <<>> THEN sec
    ELSE [sec EXCEPT !.ads = Append(@, AdResult(0, decodeHtmlEntities(title), url.text, isTop))]

RECURSIVE scanAdLinks(_, _, _, _, _)
RECURSIVE AdLinkFrom(_, _, _, _, _)
scanAdLinks(toks, pos, b, isTop, sec) ==
    AdLinkFrom(toks, First({i \in pos..b : AdLink(toks, i, b)}), b, isTop, sec)

AdLinkFrom(toks, i, b, isTop, sec) ==
    IF i = 0 \/ sec.threw THEN sec
    ELSE scanAdLinks(toks, CloseAfter(toks, i, b, "a") + 1, b, isTop,
             AdStep(sec,
                    AdUrl(toks[i].attrs[AdHrefPos(toks[i])].v,
                          AdParamPos(toks[i].attrs[AdHrefPos(toks[i])].v), null),
                    stripTags(toks, i + 1, CloseAfter(toks, i, b, "a") - 1), isTop))

parseAdSection(toks, a, b, isTop) == scanAdLinks(toks, a, b, isTop, [ads |-> <<>>, threw |-> FALSE])

\* -- the sections

\* the loop numbering an ad by its place in its own section
RECURSIVE mergeAdsBySection(_, _, _)
mergeAdsBySection(st, found, j) ==
    IF j > Len(found) THEN st
    ELSE IF found[j].url \in st.seenUrls THEN mergeAdsBySection(st, found, j + 1)
    ELSE mergeAdsBySection([st EXCEPT !.seenUrls = @ \cup {found[j].url},
                                      !.ads = Append(@, [found[j] EXCEPT !.position = j])],
                           found, j + 1)

\* for (const ad of sectionAds) if (!seenUrls.has(ad.url)) { ..; ad.position = ads.length + 1; ads.push(ad) }
RECURSIVE mergeAds(_, _, _)
mergeAds(st, found, j) ==
    IF j > Len(found) THEN st
    ELSE IF found[j].url \in st.seenUrls THEN mergeAds(st, found, j + 1)
    ELSE mergeAds([st EXCEPT !.seenUrls = @ \cup {found[j].url},
                             !.ads = Append(@, [found[j] EXCEPT !.position = Len(st.ads) + 1])],
                  found, j + 1)

MergeSection(st, sec) ==
    IF sec.threw THEN [st EXCEPT !.threw = TRUE] ELSE mergeAds(st, sec.ads, 1)

IdIs(x, ids) == HasAttr(x, "id") /\ toLowerCase(AttrVal(x, "id")) \in ids

\* <div[^>]*(?:id="tads"|class="[^"]*(?:uEierd|mnr-c)[^"]*")[^>]*>
TopAdsDiv(x) ==
    IsOpen(x, "div") /\ (IdIs(x, {<<"t", "a", "d", "s">>}) \/ AttrHas(x, "class", {<<"u", "e", "i", "e", "r", "d">>, <<"m", "n", "r", "-", "c">>}))

\* <\/div>\s*(?=<div[^>]*(?:id="(?:res|search|center_col)"|class="[^"]*(?:MjjYud|hlcw0c)[^"]*"))
TopAdsEndAt(toks, j) ==
    /\ IsClose(toks[j], "div")
    /\ NextNonWhite(toks, j) <= Len(toks)
    /\ IsOpen(toks[NextNonWhite(toks, j)], "div")
    /\ \/ IdIs(toks[NextNonWhite(toks, j)], {<<"r", "e", "s">>, <<"s", "e", "a", "r", "c", "h">>, <<"c", "e", "n", "t", "e", "r", "_", "c", "o", "l">>})
       \/ AttrHas(toks[NextNonWhite(toks, j)], "class", {<<"m", "j", "j", "y", "u", "d">>, <<"h", "l", "c", "w", "0", "c">>})

\* <div[^>]*id="bottomads"[^>]*>
BottomAdsDiv(x) == IsOpen(x, "div") /\ IdIs(x, {<<"b", "o", "t", "t", "o", "m", "a", "d", "s">>})

\* <\/div>\s*(?=<footer|$)
BottomAdsEndAt(toks, j) ==
    /\ IsClose(toks[j], "div")
    /\ \/ NextNonWhite(toks, j) > Len(toks)
       \/ IsOpen(toks[NextNonWhite(toks, j)], "footer")

SectionStart(toks, isTop) ==
    First({i \in 1..Len(toks) : IF isTop THEN TopAdsDiv(toks[i]) ELSE BottomAdsDiv(toks[i])})

SectionEnd(toks, start, isTop) ==
    First({j \in (start + 1)..Len(toks) :
        IF isTop THEN TopAdsEndAt(toks, j) ELSE BottomAdsEndAt(toks, j)})

SectionTo(toks, start, end, isTop, st) ==
    IF end = 0 THEN st ELSE MergeSection(st, parseAdSection(toks, start + 1, end - 1, isTop))

SectionFrom(toks, start, isTop, st) ==
    IF start = 0 \/ st.threw THEN st
    ELSE SectionTo(toks, start, SectionEnd(toks, start, isTop), isTop, st)

\* const match = pattern.exec(html); if (match) { .. }
adSection(toks, isTop, st) == SectionFrom(toks, SectionStart(toks, isTop), isTop, st)

\* -- the fallback: a "Sponsored" or "Ad" label and the first link behind it

LabelIn(s) == includes(toLowerCase(s), <<"s", "p", "o", "n", "s", "o", "r", "e", "d">>) \/ includes(toLowerCase(s), <<"a", "d">>)

\* the item holds the label in its character data or in an attribute value (no tag
\* name and no attribute name of the documents holds it)
HasAdLabel(x) ==
    \/ x.k = "text" /\ LabelIn(x.text)
    \/ x.k = "open" /\ \E i \in 1..Len(x.attrs) : LabelIn(x.attrs[i].v)

\* <a[^>]*href="([^"]+)"[^>]*>([\s\S]*?)<\/a>
AnyLink(toks, i) == IsOpen(toks[i], "a") /\ HasHref(toks[i]) /\ CloseAfter(toks, i, Len(toks), "a") # 0

\* the last item of the match: the </a>, or the </div> of a <div> that stands right behind it
SponsoredEnd(toks, close) ==
    IF /\ close + 1 <= Len(toks)
       /\ IsOpen(toks[close + 1], "div")
       /\ CloseAfter(toks, close + 1, Len(toks), "div") # 0
    THEN CloseAfter(toks, close + 1, Len(toks), "div")
    ELSE close

\* if (seenUrls.has(url) || !isRealExternalUrl(url)) continue; ads.push(..)
SponsoredStep(st, url, title) ==
    IF url = Threw THEN [st EXCEPT !.threw = TRUE]
    ELSE IF url.text \in st.seenUrls \/ ~isRealExternalUrl(url.text) THEN st
    ELSE [st EXCEPT !.seenUrls = @ \cup {url.text},
                    !.ads = Append(@, AdResult(Len(@) + 1, decodeHtmlEntities(title), url.text, TRUE))]

RECURSIVE scanSponsored(_, _, _)
RECURSIVE SponsoredFrom(_, _, _)
RECURSIVE SponsoredLink(_, _, _)
scanSponsored(toks, pos, st) ==
    SponsoredFrom(toks, First({i \in pos..Len(toks) : HasAdLabel(toks[i])}), st)

SponsoredFrom(toks, label, st) ==
    IF label = 0 \/ st.threw THEN st
    ELSE SponsoredLink(toks, First({i \in (label + 1)..Len(toks) : AnyLink(toks, i)}), st)

SponsoredLink(toks, i, st) ==
    IF i = 0 THEN st
    ELSE scanSponsored(toks, SponsoredEnd(toks, CloseAfter(toks, i, Len(toks), "a")) + 1,
             SponsoredStep(st,
                 AdUrl(AttrVal(toks[i], "href"), AdParamPos(AttrVal(toks[i], "href")),
                       Text(AttrVal(toks[i], "href"))),
                 stripTags(toks, i + 1, CloseAfter(toks, i, Len(toks), "a") - 1)))

sponsoredFallback(toks, st) ==
    IF ~st.threw /\ st.ads = <<>> THEN scanSponsored(toks, 1, st) ELSE st

\* ads.filter(ad => isRealExternalUrl(ad.url))
FilterAds(ads) == SelectSeq(ads, LAMBDA ad : isRealExternalUrl(ad.url))

AdsOutcome(st) == IF st.threw THEN Threw ELSE Returned(FilterAds(st.ads))

extractAds(html) ==
    AdsOutcome(sponsoredFallback(html.toks, adSection(html.toks, FALSE, adSection(html.toks, TRUE, NoAds))))

\* ------------------------------------------------------------------------
\* extractPeopleAlsoAsk. The scan state is [list, seen].
\* ------------------------------------------------------------------------

NoEntries == [list |-> <<>>, seen |-> {}]

PeopleAlsoAsk(question, snippet, url) == [question |-> question, snippet |-> snippet, url |-> url]

\* /data-q="([^"]+)"[\s\S]*?(?:<div ..>([\s\S]*?)<\/div>)?[\s\S]*?(?:<a[^>]*href="([^"]+)")?/gi:
\* both optional groups are tried where the attribute ends, inside the tag, and so
\* never take part in a match: snippet and url are null
DataQ(x) == HasAttr(x, "data-q") /\ AttrVal(x, "data-q") # <<>>

\* PaaStep with the question looked up as it is written, not case-folded
PaaStepExact(st, question) ==
    IF question \in st.seen THEN st
    ELSE [st EXCEPT !.seen = @ \cup {toLowerCase(question)},
                    !.list = Append(@, PeopleAlsoAsk(question, null, null))]

PaaStep(st, question) ==
    IF toLowerCase(question) \in st.seen THEN st
    ELSE [st EXCEPT !.seen = @ \cup {toLowerCase(question)},
                    !.list = Append(@, PeopleAlsoAsk(question, null, null))]

RECURSIVE scanDataQ(_, _, _)
RECURSIVE DataQFrom(_, _, _)
scanDataQ(toks, pos, st) == DataQFrom(toks, First({i \in pos..Len(toks) : DataQ(toks[i])}), st)

DataQFrom(toks, i, st) ==
    IF i = 0 THEN st
    ELSE scanDataQ(toks, i + 1, PaaStep(st, decodeHtmlEntities(AttrVal(toks[i], "data-q"))))

\* the first <span[^>]*>([^<]+)<\/span> behind item i whose text satisfies P
SpanBehind(toks, i, P(_)) ==
    First({s \in (i + 1)..Len(toks) :
        PlainElementAt(toks, s, Len(toks), "span") /\ P(ItemText(toks[s + 1]))})

AnyText(text) == TRUE

\* /\?$|^(?:what|how|why|when|where|which|who|is|are|can|do|does|will|should)/i
QuestionWords ==
    {<<"w", "h", "a", "t">>, <<"h", "o", "w">>, <<"w", "h", "y">>, <<"w", "h", "e", "n">>, <<"w", "h", "e", "r", "e">>, <<"w", "h", "i", "c", "h">>, <<"w", "h", "o">>, <<"i", "s">>, <<"a", "r", "e">>, <<"c", "a", "n">>, <<"d", "o">>,
     <<"d", "o", "e", "s">>, <<"w", "i", "l", "l">>, <<"s", "h", "o", "u", "l", "d">>}

LooksLikeQuestion(text) ==
    \/ text # <<>> /\ text[Len(text)] = "?"
    \/ \E w \in QuestionWords : startsWith(toLowerCase(text), w)

\* text.length > 15 && text.length < 200 && !seenQuestions.has(..) and the text looks like a question
ExpandedStep(st, text) ==
    IF Len(text) > 15 /\ Len(text) < 200 /\ toLowerCase(text) \notin st.seen /\ LooksLikeQuestion(text)
    THEN [st EXCEPT !.seen = @ \cup {toLowerCase(text)},
                    !.list = Append(@, PeopleAlsoAsk(text, null, null))]
    ELSE st

\* /aria-expanded="[^"]*"[^>]*>[\s\S]*?<span[^>]*>([^<]+)<\/span>/gi
ExpandedAt(toks, i) == HasAttr(toks[i], "aria-expanded") /\ SpanBehind(toks, i, AnyText) # 0

RECURSIVE scanExpanded(_, _, _)
RECURSIVE ExpandedFrom(_, _, _)
scanExpanded(toks, pos, st) ==
    ExpandedFrom(toks, First({i \in pos..Len(toks) : ExpandedAt(toks, i)}), st)

ExpandedFrom(toks, i, st) ==
    IF i = 0 THEN st
    ELSE scanExpanded(toks, SpanBehind(toks, i, AnyText) + 3,
             ExpandedStep(st, decodeHtmlEntities(trim(ItemText(toks[SpanBehind(toks, i, AnyText) + 1])))))

\* <div[^>]*jsname="[^"]*"[^>]*class="[^"]*(?:related-question|CBv0Pd)[^"]*"[^>]*>
RelatedQuestionDiv(x) ==
    /\ IsOpen(x, "div")
    /\ \E c \in 1..Len(x.attrs) :
        /\ x.attrs[c].n = "class"
        /\ ValueHas(x.attrs[c].v, {<<"r", "e", "l", "a", "t", "e", "d", "-", "q", "u", "e", "s", "t", "i", "o", "n">>, <<"c", "b", "v", "0", "p", "d">>})
        /\ \E j \in 1..(c - 1) : x.attrs[j].n = "jsname"

\* ([^<]{15,200})
QuestionLength(text) == Len(text) >= 15 /\ Len(text) <= 200

RelatedQuestionAt(toks, i) == RelatedQuestionDiv(toks[i]) /\ SpanBehind(toks, i, QuestionLength) # 0

QuestionStep(st, text) ==
    IF toLowerCase(text) \in st.seen THEN st
    ELSE [st EXCEPT !.seen = @ \cup {toLowerCase(text)},
                    !.list = Append(@, PeopleAlsoAsk(text, null, null))]

RECURSIVE scanRelatedQuestions(_, _, _)
RECURSIVE RelatedQuestionFrom(_, _, _)
scanRelatedQuestions(toks, pos, st) ==
    RelatedQuestionFrom(toks, First({i \in pos..Len(toks) : RelatedQuestionAt(toks, i)}), st)

RelatedQuestionFrom(toks, i, st) ==
    IF i = 0 THEN st
    ELSE scanRelatedQuestions(toks, SpanBehind(toks, i, QuestionLength) + 3,
             QuestionStep(st,
                 decodeHtmlEntities(trim(ItemText(toks[SpanBehind(toks, i, QuestionLength) + 1])))))

PaaPattern(n, toks, st) ==
    CASE n = 1 -> scanDataQ(toks, 1, st)
      [] n = 2 -> IF st.list = <<>> THEN scanExpanded(toks, 1, st) ELSE st
      [] n = 3 -> IF st.list = <<>> THEN scanRelatedQuestions(toks, 1, st) ELSE st

extractPeopleAlsoAsk(html) ==
    PaaPattern(3, html.toks, PaaPattern(2, html.toks, PaaPattern(1, html.toks, NoEntries))).list

\* ------------------------------------------------------------------------
\* extractRelatedSearches. The scan state is [list, seen].
\* ------------------------------------------------------------------------

\* the first <TAG[^>]*>([^<]+)<\/TAG> behind item i
PlainBehind(toks, i, tag) ==
    First({s \in (i + 1)..Len(toks) : PlainElementAt(toks, s, Len(toks), tag)})

\* <a[^>]*href="\/search\?q=[^"]*"[^>]*class="[^"]*"[^>]*>([^<]+)<\/a>
SearchLinkAt(toks, i) ==
    /\ i + 2 <= Len(toks)
    /\ IsOpen(toks[i], "a")
    /\ IsPlain(toks[i + 1])
    /\ IsClose(toks[i + 2], "a")
    /\ \E c \in 1..Len(toks[i].attrs) :
        /\ toks[i].attrs[c].n = "class"
        /\ \E h \in 1..(c - 1) :
            /\ toks[i].attrs[h].n = "href"
            /\ startsWith(toLowerCase(toks[i].attrs[h].v), <<"/", "s", "e", "a", "r", "c", "h", "?", "q", "=">>)

\* where the n-th expression matches at item i: the item of the captured text, 0 for no match
RelatedTextAt(n, toks, i) ==
    CASE n = 1 -> IF IsOpen(toks[i], "a") /\ AttrHas(toks[i], "class", {<<"k", "8", "x", "o", "c", "e">>, <<"s", "7", "5", "c", "s", "d">>, <<"b", "v", "g", "0", "n", "b">>})
                     /\ PlainBehind(toks, i, "div") # 0
                  THEN PlainBehind(toks, i, "div") + 1 ELSE 0
      [] n = 2 -> IF IsOpen(toks[i], "p") /\ AttrHas(toks[i], "class", {<<"s", "6", "j", "m", "6", "d">>, <<"r", "2", "f", "j", "m", "d">>})
                     /\ PlainBehind(toks, i, "span") # 0
                  THEN PlainBehind(toks, i, "span") + 1 ELSE 0
      [] n = 3 -> IF SearchLinkAt(toks, i) THEN i + 1 ELSE 0

\* search.length > 2 && search.length < 100 && !seenSearches.has(search.toLowerCase())
RelatedStep(st, search) ==
    IF Len(search) > 2 /\ Len(search) < 100 /\ toLowerCase(search) \notin st.seen
    THEN [st EXCEPT !.seen = @ \cup {toLowerCase(search)}, !.list = Append(@, search)]
    ELSE st

RECURSIVE scanRelated(_, _, _, _)
RECURSIVE RelatedFrom(_, _, _, _)
scanRelated(n, toks, pos, st) ==
    RelatedFrom(n, toks, First({i \in pos..Len(toks) : RelatedTextAt(n, toks, i) # 0}), st)

RelatedFrom(n, toks, i, st) ==
    IF i = 0 THEN st
    ELSE scanRelated(n, toks, RelatedTextAt(n, toks, i) + 2,
             RelatedStep(st, decodeHtmlEntities(trim(ItemText(toks[RelatedTextAt(n, toks, i)])))))

\* for (const pattern of relatedPatterns) { ..; if (searches.length > 0) break; }
RECURSIVE relatedPatterns(_, _, _)
relatedPatterns(n, toks, st) ==
    IF n > 3 \/ st.list # <<>> THEN st ELSE relatedPatterns(n + 1, toks, scanRelated(n, toks, 1, st))

extractRelatedSearches(html) == relatedPatterns(1, html.toks, NoEntries).list

\* ------------------------------------------------------------------------
\* extractMapPack (name, rating; the other fields of the source's record are
\* not modelled). The scan state is [list, seen].
\* ------------------------------------------------------------------------

MapPackResult(name, rating) == [name |-> name, rating |-> rating]

\* the opening tag of a card, for the first and for the second expression
MapCardDiv(n, x) ==
    /\ IsOpen(x, "div")
    /\ IF n = 1 THEN AttrHas(x, "class", {<<"v", "k", "p", "g", "b", "b">>, <<"r", "l", "l", "t", "_", "_", "l", "i", "n", "k">>, <<"c", "x", "e", "d", "h", "c">>, <<"x", "7", "j", "i", "d", "e">>})
       ELSE HasAttr(x, "data-cid")

\* <\/div>\s*<\/div>
TwoClosesAt(toks, j) ==
    /\ IsClose(toks[j], "div")
    /\ NextNonWhite(toks, j) <= Len(toks)
    /\ IsClose(toks[NextNonWhite(toks, j)], "div")

NameSpan(x) == AttrHas(x, "class", {<<"o", "s", "r", "x", "x", "b">>, <<"d", "b", "g", "0", "p", "d">>, <<"s", "p", "z", "z", "6", "b">>})

\* aria-label="([^"]{3,60})"
LabelledAt(x) ==
    HasAttr(x, "aria-label") /\ Len(AttrVal(x, "aria-label")) >= 3 /\ Len(AttrVal(x, "aria-label")) <= 60

\* the first name expression that matches decides: nameMatch[1].trim(), '' when none matches
CardName(toks, a, b, span, heading, labelled) ==
    IF span # 0 THEN PlainText(toks, span)
    ELSE IF heading # 0 THEN PlainText(toks, heading)
    ELSE IF labelled # 0 THEN trim(AttrVal(toks[labelled], "aria-label"))
    ELSE <<>>

\* /(\d\.\d)\s*(?:\(|stars?)/i matches the text s at position p
RatingAt(s, p) ==
    /\ p + 2 <= Len(s)
    /\ s[p] \in DigitSet /\ s[p + 1] = "." /\ s[p + 2] \in DigitSet
    /\ \E q \in (p + 3)..Len(s) :
        /\ \A j \in (p + 3)..(q - 1) : s[j] \in WhiteSet
        /\ s[q] = "(" \/ HasAt(toLowerCase(s), <<"s", "t", "a", "r">>, q)

\* the texts of an item the expressions of the source can match in: character data, attribute values
RECURSIVE AttrValues(_, _)
AttrValues(attrs, i) == IF i > Len(attrs) THEN <<>> ELSE <<attrs[i].v>> \o AttrValues(attrs, i + 1)

ItemStrings(x) ==
    CASE x.k = "text" -> <<x.text>>
      [] x.k = "open" -> AttrValues(x.attrs, 1)
      [] OTHER -> <<>>

RECURSIVE Strings(_, _, _)
Strings(toks, a, b) == IF a > b THEN <<>> ELSE ItemStrings(toks[a]) \o Strings(toks, a + 1, b)

\* the first text of strs that M matches, 0 for none
FirstString(strs, M(_, _)) ==
    First({k \in 1..Len(strs) : \E p \in 1..Len(strs[k]) : M(strs[k], p)})

\* match[1] of /(\d\.\d).../ in the first text it matches
RatingText(strs, k) ==
    IF k = 0 THEN <<>>
    ELSE SubSeq(strs[k], First({p \in 1..Len(strs[k]) : RatingAt(strs[k], p)}),
                First({p \in 1..Len(strs[k]) : RatingAt(strs[k], p)}) + 2)

\* if (parsed >= 1 && parsed <= 5) rating = parsed
CardRating(txt) ==
    IF txt # <<>> /\ Between(parseFloat(txt), 1, 5) THEN parseFloat(txt) ELSE null

\* if (!name || name.length < 2 || seenNames.has(name.toLowerCase())) continue
MapCardStep(st, name, rating) ==
    IF Len(name) < 2 \/ toLowerCase(name) \in st.seen THEN st
    ELSE [st EXCEPT !.seen = @ \cup {toLowerCase(name)},
                    !.list = Append(@, MapPackResult(name, rating))]

MapCard(toks, a, b, st) ==
    MapCardStep(st,
        decodeHtmlEntities(CardName(toks, a, b,
            FirstPlain(toks, a, b, "span", NameSpan),
            FirstPlain(toks, a, b, "div", RoleHeading),
            First({i \in a..b : LabelledAt(toks[i])}))),
        CardRating(RatingText(Strings(toks, a, b), FirstString(Strings(toks, a, b), RatingAt))))

RECURSIVE scanMapCards(_, _, _, _)
RECURSIVE MapCardFrom(_, _, _, _)
RECURSIVE MapCardTo(_, _, _, _, _)
scanMapCards(n, toks, pos, st) ==
    MapCardFrom(n, toks, First({i \in pos..Len(toks) : MapCardDiv(n, toks[i])}), st)

MapCardFrom(n, toks, start, st) ==
    IF start = 0 THEN st
    ELSE MapCardTo(n, toks, start, First({j \in (start + 1)..Len(toks) : TwoClosesAt(toks, j)}), st)

MapCardTo(n, toks, start, end, st) ==
    IF end = 0 THEN st
    ELSE scanMapCards(n, toks, NextNonWhite(toks, end) + 1, MapCard(toks, start + 1, end - 1, st))

\* for (const mapPattern of mapPatterns) { ..; if (results.length > 0) break; }
RECURSIVE mapPatterns(_, _, _)
mapPatterns(n, toks, st) ==
    IF n > 2 \/ st.list # <<>> THEN st ELSE mapPatterns(n + 1, toks, scanMapCards(n, toks, 1, st))

extractMapPack(html) == mapPatterns(1, html.toks, NoEntries).list

\* ------------------------------------------------------------------------
\* extractFeaturedSnippet (text, url; title and type are not modelled)
\* ------------------------------------------------------------------------

FeaturedSnippet(text, url) == [text |-> text, url |-> url]

\* class="[^"]*X[^"]*" followed, in the same tag, by an attribute named n
ClassThenAttr(x, alts, n) ==
    \E c \in 1..Len(x.attrs) :
        /\ x.attrs[c].n = "class"
        /\ ValueHas(x.attrs[c].v, alts)
        /\ \E j \in (c + 1)..Len(x.attrs) : x.attrs[j].n = n

AttrIs(x, n, v) == HasAttr(x, n) /\ toLowerCase(AttrVal(x, n)) = v

\* the opening tag of the n-th expression of fsPatterns
SnippetStart(n, x) ==
    /\ IsOpen(x, "div")
    /\ CASE n = 1 -> AttrHas(x, "class", {<<"i", "z", "6", "r", "d", "c">>, <<"x", "p", "d", "o", "p", "e", "n">>, <<"k", "n", "o", "-", "r", "d", "e", "s", "c">>, <<"l", "g", "o", "j", "h", "e">>, <<"a", "y", "q", "g", "o", "c">>})
         [] n = 2 -> ClassThenAttr(x, {<<"m", "o", "d">>, <<"w", "d", "y", "x", "h", "c">>}, "data-md")
         [] n = 3 -> AttrIs(x, "data-tts", <<"a", "n", "s", "w", "e", "r", "s">>)

\* <\/div>\s*<div for the first expression, <\/div> for the others
SnippetEndAt(n, toks, j) ==
    /\ IsClose(toks[j], "div")
    /\ n = 1 => NextNonWhite(toks, j) <= Len(toks) /\ IsOpen(toks[NextNonWhite(toks, j)], "div")

\* https?:\/\/(?!google\.com)[^"]+
ExternalHref(v) ==
    \E p \in {<<"h", "t", "t", "p", ":", "/", "/">>, <<"h", "t", "t", "p", "s", ":", "/", "/">>} :
        /\ startsWith(toLowerCase(v), p)
        /\ Len(v) > Len(p)
        /\ ~HasAt(toLowerCase(v), <<"g", "o", "o", "g", "l", "e", ".", "c", "o", "m">>, Len(p) + 1)

ExternalLink(x) == IsOpen(x, "a") /\ HasAttr(x, "href") /\ ExternalHref(AttrVal(x, "href"))

\* urlMatch ? urlMatch[1] : ''
HrefOrEmpty(toks, i) == IF i = 0 THEN <<>> ELSE AttrVal(toks[i], "href")

MaxSnippetText == 500

RECURSIVE fsPatterns(_, _)
RECURSIVE SnippetFrom(_, _, _)
RECURSIVE SnippetTo(_, _, _, _)
RECURSIVE SnippetText(_, _, _, _, _)
\* for (const pattern of fsPatterns) { const match = html.match(pattern); .. }
fsPatterns(n, toks) ==
    IF n > 3 THEN null
    ELSE SnippetFrom(n, toks, First({i \in 1..Len(toks) : SnippetStart(n, toks[i])}))

SnippetFrom(n, toks, start) ==
    IF start = 0 THEN fsPatterns(n + 1, toks)
    ELSE SnippetTo(n, toks, start, First({j \in (start + 1)..Len(toks) : SnippetEndAt(n, toks, j)}))

SnippetTo(n, toks, start, end) ==
    IF end = 0 THEN fsPatterns(n + 1, toks)
    ELSE SnippetText(n, toks, start + 1, end - 1,
                     trim(decodeHtmlEntities(stripTags(toks, start + 1, end - 1))))

\* if (text.length < 20) continue
SnippetText(n, toks, a, b, text) ==
    IF Len(text) < 20 THEN fsPatterns(n + 1, toks)
    ELSE FeaturedSnippet(SliceTo(text, MaxSnippetText),
                         HrefOrEmpty(toks, First({i \in a..b : ExternalLink(toks[i])})))

extractFeaturedSnippet(html) == fsPatterns(1, html.toks)

\* ------------------------------------------------------------------------
\* extractAiOverview (text, sources)
\* ------------------------------------------------------------------------

AiOverview(text, sources) == [text |-> text, sources |-> sources]

MaxOverviewText == 1000

\* <\/div>\s*<\/div>\s*<\/div>
ThreeClosesAt(toks, j) ==
    /\ TwoClosesAt(toks, j)
    /\ NextNonWhite(toks, NextNonWhite(toks, j)) <= Len(toks)
    /\ IsClose(toks[NextNonWhite(toks, NextNonWhite(toks, j))], "div")

\* (?:AI Overview|AI-generated), letter case ignored: where the text s holds it first, 0 for nowhere
PhrasePos(s) ==
    First({p \in 1..Len(s) :
        HasAt(toLowerCase(s), <<"a", "i", " ", "o", "v", "e", "r", "v", "i", "e", "w">>, p) \/ HasAt(toLowerCase(s), <<"a", "i", "-", "g", "e", "n", "e", "r", "a", "t", "e", "d">>, p)})

PhraseLen(s, p) == IF HasAt(toLowerCase(s), <<"a", "i", " ", "o", "v", "e", "r", "v", "i", "e", "w">>, p) THEN 11 ELSE 12

\* the character data behind item i that holds the phrase (the attribute values of the
\* documents do not hold it)
PhraseItem(toks, i) ==
    First({t \in (i + 1)..Len(toks) : toks[t].k = "text" /\ PhrasePos(toks[t].text) # 0})

\* the opening tag of the n-th expression of aiPatterns
OverviewStart(n, x) ==
    /\ IsOpen(x, "div")
    /\ CASE n = 1 -> AttrHas(x, "class", {<<"w", "s", "m", "p", "v", "d">>, <<"s", "o", "j", "b", "g", "d">>, <<"y", "s", "s", "b", "b", "e">>, <<"k", "u", "s", "m", "q", "b">>, <<"j", "m", "w", "m", "j">>})
         [] n = 2 -> AttrHas(x, "data-attrid", {<<"a", "i">>})
         [] n = 3 -> AttrHas(x, "class", {<<"m", "o", "d">>})

\* the item behind which match[1] starts: the opening tag, or the character data with the phrase
OverviewFrom(n, toks, start) == IF n = 3 THEN PhraseItem(toks, start) ELSE start

OverviewEndAt(n, toks, j) ==
    CASE n = 1 -> ThreeClosesAt(toks, j)
      [] n = 2 -> IsClose(toks[j], "div")
      [] n = 3 -> TwoClosesAt(toks, j)

\* what of the item `from` itself belongs to match[1]: the text behind the phrase
OverviewHead(n, toks, from) ==
    IF n = 3
    THEN Drop(toks[from].text,
              PhrasePos(toks[from].text) + PhraseLen(toks[from].text, PhrasePos(toks[from].text)) - 1)
    ELSE <<>>

\* /<a[^>]*href="(https?:\/\/(?!google\.com)[^"]+)"[^>]*>([^<]*)<\/a>/gi: the link at item i
\* with its title, when stripTags(title).trim() is not empty
SourceAt(toks, i, b) ==
    /\ ExternalLink(toks[i])
    /\ i + 2 <= b
    /\ toks[i + 1].k \in {"text", "space"}
    /\ IsClose(toks[i + 2], "a")
    /\ trim(ItemText(toks[i + 1])) # <<>>

RECURSIVE Sources(_, _, _)
Sources(toks, a, b) ==
    IF a > b THEN <<>>
    ELSE (IF SourceAt(toks, a, b)
          THEN <<[title |-> decodeHtmlEntities(trim(ItemText(toks[a + 1]))),
                  url |-> AttrVal(toks[a], "href")]>>
          ELSE <<>>) \o Sources(toks, a + 1, b)

RECURSIVE aiPatterns(_, _)
RECURSIVE OverviewAfter(_, _, _)
RECURSIVE OverviewTo(_, _, _, _)
RECURSIVE OverviewText(_, _, _, _, _)
aiPatterns(n, toks) ==
    IF n > 3 THEN null
    ELSE OverviewAfter(n, toks, First({i \in 1..Len(toks) : OverviewStart(n, toks[i])}))

OverviewAfter(n, toks, start) ==
    IF start = 0 \/ OverviewFrom(n, toks, start) = 0 THEN aiPatterns(n + 1, toks)
    ELSE OverviewTo(n, toks, OverviewFrom(n, toks, start),
                    First({j \in (OverviewFrom(n, toks, start) + 1)..Len(toks) :
                              OverviewEndAt(n, toks, j)}))

OverviewTo(n, toks, from, end) ==
    IF end = 0 THEN aiPatterns(n + 1, toks)
    ELSE OverviewText(n, toks, from + 1, end - 1,
             trim(decodeHtmlEntities(trim(OverviewHead(n, toks, from)
                                          \o InnerText(toks, from + 1, end - 1)))))

\* if (text.length < 30) continue
OverviewText(n, toks, a, b, text) ==
    IF Len(text) < 30 THEN aiPatterns(n + 1, toks)
    ELSE AiOverview(SliceTo(text, MaxOverviewText), Sources(toks, a, b))

extractAiOverview(html) == aiPatterns(1, html.toks)

\* ------------------------------------------------------------------------
\* extractKnowledgePanel (title, url, attributes; the other fields of the source's record are
\* not modelled)
\* ------------------------------------------------------------------------

KnowledgePanel(title, url, attributes) == [title |-> title, url |-> url, attributes |-> attributes]

\* the opening tag of the n-th expression of kpPatterns
PanelStart(n, x) ==
    /\ IsOpen(x, "div")
    /\ IF n = 1
       THEN AttrHas(x, "class", {<<"k", "p", "-", "w", "h", "o", "l", "e", "p", "a", "g", "e">>, <<"k", "n", "o", "w", "l", "e", "d", "g", "e", "-", "p", "a", "n", "e", "l">>, <<"k", "n", "o", "-", "r", "e", "s", "u", "l", "t">>, <<"o", "s", "r", "p", "-", "b", "l", "k">>})
       ELSE AttrIs(x, "data-attrid", <<"t", "i", "t", "l", "e">>)

\* (?:<div[^>]*data-attrid="X"[^>]*>([\s\S]*?)<\/div>)? behind item j, the [\s\S]*? in front of it
\* matching nothing: the last item of the match, j when the group takes no part
OptionalDiv(toks, j, x) ==
    IF /\ j + 1 <= Len(toks)
       /\ IsOpen(toks[j + 1], "div") /\ AttrIs(toks[j + 1], "data-attrid", x)
       /\ CloseAfter(toks, j + 1, Len(toks), "div") # 0
    THEN CloseAfter(toks, j + 1, Len(toks), "div")
    ELSE j

\* the last item of match[0], the match of the n-th expression reaching the closing tag j
PanelEnd(n, toks, j) ==
    IF n = 1 THEN NextNonWhite(toks, NextNonWhite(toks, j))
    ELSE OptionalDiv(toks, OptionalDiv(toks, j, <<"s", "u", "b", "t", "i", "t", "l", "e">>), <<"d", "e", "s", "c", "r", "i", "p", "t", "i", "o", "n">>)

PanelEndAt(n, toks, j) == IF n = 1 THEN ThreeClosesAt(toks, j) ELSE IsClose(toks[j], "div")

\* data-attrid="title"[^>]*>([^<]+)<
TitledAt(toks, i, b) ==
    /\ i + 2 <= b
    /\ toks[i].k = "open" /\ AttrIs(toks[i], "data-attrid", <<"t", "i", "t", "l", "e">>)
    /\ IsPlain(toks[i + 1])
    /\ toks[i + 2].k \in {"open", "close"}

\* <h2[^>]*class="[^"]*(?:qrShPb|kno-ecr-pt)[^"]*"[^>]*>([^<]+)
HeadingAt(toks, i, b) ==
    /\ i + 1 <= b
    /\ IsOpen(toks[i], "h2") /\ AttrHas(toks[i], "class", {<<"q", "r", "s", "h", "p", "b">>, <<"k", "n", "o", "-", "e", "c", "r", "-", "p", "t">>})
    /\ IsPlain(toks[i + 1])

\* content.match(..) || content.match(..): the item of the opening tag, 0 for no match
PanelTitleAt(toks, a, b) ==
    IF \E i \in a..b : TitledAt(toks, i, b)
    THEN First({i \in a..b : TitledAt(toks, i, b)})
    ELSE First({i \in a..b : HeadingAt(toks, i, b)})

\* <a[^>]*href="(https?:\/\/(?!google\.com)[^"]+)"[^>]*class="[^"]*(?:ruhjFe|ab_button)[^"]*":
\* the places of such href attributes, a class attribute of that kind behind them
PanelHrefs(x) ==
    {i \in 1..Len(x.attrs) :
        /\ x.attrs[i].n = "href" /\ ExternalHref(x.attrs[i].v)
        /\ \E j \in (i + 1)..Len(x.attrs) :
                x.attrs[j].n = "class" /\ ValueHas(x.attrs[j].v, {<<"r", "u", "h", "j", "f", "e">>, <<"a", "b", "_", "b", "u", "t", "t", "o", "n">>})}

PanelLink(x) == IsOpen(x, "a") /\ PanelHrefs(x) # {}

\* urlMatch ? urlMatch[1] : null, for the link at item i
PanelHref(toks, i) ==
    IF i = 0 THEN null
    ELSE Text(toks[i].attrs[CHOOSE h \in PanelHrefs(toks[i]) : \A k \in PanelHrefs(toks[i]) : k <= h].v)

PanelUrl(toks, a, b) == PanelHref(toks, First({i \in a..b : PanelLink(toks[i])}))

\* the places of the / that can end the prefix kc:/../ with text left behind it
KcSlashes(v) == {p \in 5..(Len(v) - 1) : v[p] = "/"}

\* (?:kc:\/[^"]*?\/)?([^"]+): the first group of attrPattern for the attribute value v
AttrId(v) ==
    IF Len(v) >= 4 /\ toLowerCase(SubSeq(v, 1, 4)) = <<"k", "c", ":", "/">> /\ KcSlashes(v) # {}
    THEN SubSeq(v, SetMin(KcSlashes(v)) + 1, Len(v))
    ELSE v

\* attrMatch[1].replace(/_/g, ' ').trim()
AttrKey(v) == trim([i \in 1..Len(AttrId(v)) |-> IF AttrId(v)[i] = "_" THEN " " ELSE AttrId(v)[i]])

\* data-attrid="..([^"]+)"[^>]*>
AttrIdAt(toks, i) ==
    toks[i].k = "open" /\ HasAttr(toks[i], "data-attrid") /\ AttrVal(toks[i], "data-attrid") # <<>>

\* <span[^>]*>([^<]+)<\/span>
SpanAt(toks, j, b) ==
    j + 2 <= b /\ IsOpen(toks[j], "span") /\ IsPlain(toks[j + 1]) /\ IsClose(toks[j + 2], "span")

\* attributes[key] = value: a key that is there keeps its place
SetAttribute(attributes, key, value) ==
    IF \E n \in 1..Len(attributes) : attributes[n].key = key
    THEN [n \in 1..Len(attributes) |->
            IF attributes[n].key = key THEN [key |-> key, value |-> value] ELSE attributes[n]]
    ELSE Append(attributes, [key |-> key, value |-> value])

\* if (key && value && key !== 'title' && key !== 'subtitle' && key !== 'description')
AttributeStep(attributes, key, value) ==
    IF key # <<>> /\ value # <<>> /\ key \notin {<<"t", "i", "t", "l", "e">>, <<"s", "u", "b", "t", "i", "t", "l", "e">>, <<"d", "e", "s", "c", "r", "i", "p", "t", "i", "o", "n">>}
    THEN SetAttribute(attributes, key, value)
    ELSE attributes

\* while ((attrMatch = attrPattern.exec(content)) !== null) over the items pos..b of content
RECURSIVE scanAttributes(_, _, _, _)
RECURSIVE AttributesFrom(_, _, _, _)
RECURSIVE AttributeSpan(_, _, _, _, _)
scanAttributes(toks, pos, b, attributes) ==
    AttributesFrom(toks, First({i \in pos..b : AttrIdAt(toks, i)}), b, attributes)

AttributesFrom(toks, i, b, attributes) ==
    IF i = 0 THEN attributes
    ELSE AttributeSpan(toks, i, First({j \in (i + 1)..b : SpanAt(toks, j, b)}), b, attributes)

AttributeSpan(toks, i, j, b, attributes) ==
    IF j = 0 THEN attributes
    ELSE scanAttributes(toks, j + 3, b,
             AttributeStep(attributes, AttrKey(AttrVal(toks[i], "data-attrid")),
                           decodeHtmlEntities(trim(ItemText(toks[j + 1])))))

RECURSIVE kpPatterns(_, _)
RECURSIVE PanelFrom(_, _, _)
RECURSIVE PanelTo(_, _, _, _)
RECURSIVE PanelTitled(_, _, _, _, _)
\* for (const pattern of kpPatterns) { const match = html.match(pattern); if (!match) continue; .. }
kpPatterns(n, toks) ==
    IF n > 2 THEN null
    ELSE PanelFrom(n, toks, First({i \in 1..Len(toks) : PanelStart(n, toks[i])}))

PanelFrom(n, toks, start) ==
    IF start = 0 THEN kpPatterns(n + 1, toks)
    ELSE PanelTo(n, toks, start, First({j \in (start + 1)..Len(toks) : PanelEndAt(n, toks, j)}))

\* if (!titleMatch) continue
PanelTo(n, toks, start, end) ==
    IF end = 0 \/ PanelTitleAt(toks, start, PanelEnd(n, toks, end)) = 0 THEN kpPatterns(n + 1, toks)
    ELSE PanelTitled(n, toks,
             decodeHtmlEntities(trim(ItemText(toks[PanelTitleAt(toks, start, PanelEnd(n, toks, end)) + 1]))),
             PanelUrl(toks, start, PanelEnd(n, toks, end)),
             scanAttributes(toks, start, PanelEnd(n, toks, end), <<>>))

\* if (title.length < 2) continue
PanelTitled(n, toks, title, url, attributes) ==
    IF Len(title) < 2 THEN kpPatterns(n + 1, toks) ELSE KnowledgePanel(title, url, attributes)

extractKnowledgePanel(html) == kpPatterns(1, html.toks)

\* ------------------------------------------------------------------------
\* extractTotalResults
\* ------------------------------------------------------------------------

CountChars == {"0", "1", "2", "3", "4", "5", "6", "7", "8", "9", ","}

\* behind the longest run of characters of C that starts at q
RunEnd(s, q, C) == MinOr({j \in q..Len(s) : s[j] \notin C}, Len(s) + 1)

\* ([\d,]+)\s+results at w
CountedAt(s, w) ==
    /\ RunEnd(s, w, CountChars) > w
    /\ RunEnd(s, RunEnd(s, w, CountChars), WhiteSet) > RunEnd(s, w, CountChars)
    /\ HasAt(toLowerCase(s), <<"r", "e", "s", "u", "l", "t", "s">>, RunEnd(s, RunEnd(s, w, CountChars), WhiteSet))

\* About\s+ at p
AboutAt(s, p) == HasAt(toLowerCase(s), <<"a", "b", "o", "u", "t">>, p) /\ RunEnd(s, p + 5, WhiteSet) > p + 5

\* About\s+([\d,]+) at p
AboutCountAt(s, p) == AboutAt(s, p) /\ RunEnd(s, RunEnd(s, p + 5, WhiteSet), CountChars) > RunEnd(s, p + 5, WhiteSet)

\* the n-th expression of patterns at p of the text s
TotalAt(n, s, p) ==
    CASE n = 1 -> AboutAt(s, p) /\ CountedAt(s, RunEnd(s, p + 5, WhiteSet))
      [] n = 2 -> (AboutAt(s, p) /\ CountedAt(s, RunEnd(s, p + 5, WhiteSet))) \/ CountedAt(s, p)
      [] n = 3 -> p = 1 /\ AboutCountAt(s, p)

\* where match[1] starts, the expression matching at p
CountStart(n, s, p) == IF AboutAt(s, p) THEN RunEnd(s, p + 5, WhiteSet) ELSE p

Count(n, s, p) == SubSeq(s, CountStart(n, s, p), RunEnd(s, CountStart(n, s, p), CountChars) - 1)

\* the texts the n-th expression can match in: every text of the document, or the
\* character data behind a tag with the attribute value "resultStats"
StatsTag(x) == x.k = "open" /\ \E c \in 1..Len(x.attrs) : toLowerCase(x.attrs[c].v) = <<"r", "e", "s", "u", "l", "t", "s", "t", "a", "t", "s">>

RECURSIVE StatsTexts(_, _)
StatsTexts(toks, i) ==
    IF i >= Len(toks) THEN <<>>
    ELSE (IF StatsTag(toks[i]) /\ toks[i + 1].k = "text" THEN <<toks[i + 1].text>> ELSE <<>>)
         \o StatsTexts(toks, i + 1)

TotalTexts(n, toks) == IF n = 3 THEN StatsTexts(toks, 1) ELSE Strings(toks, 1, Len(toks))

TotalMatchAt(n, s) == First({p \in 1..Len(s) : TotalAt(n, s, p)})

TotalIn(n, strs) == First({k \in 1..Len(strs) : TotalMatchAt(n, strs[k]) # 0})

RECURSIVE patterns(_, _)
\* patterns with '' instead of null when no expression matches
RECURSIVE patternsOrEmpty(_, _)
patternsOrEmpty(n, toks) ==
    IF n > 3 THEN Text(<<>>)
    ELSE IF TotalIn(n, TotalTexts(n, toks)) = 0 THEN patternsOrEmpty(n + 1, toks)
    ELSE Text(Count(n, TotalTexts(n, toks)[TotalIn(n, TotalTexts(n, toks))],
                    TotalMatchAt(n, TotalTexts(n, toks)[TotalIn(n, TotalTexts(n, toks))])))

\* for (const pattern of patterns) { const match = html.match(pattern); if (match) return match[1]; }
patterns(n, toks) ==
    IF n > 3 THEN null
    ELSE IF TotalIn(n, TotalTexts(n, toks)) = 0 THEN patterns(n + 1, toks)
    ELSE Text(Count(n, TotalTexts(n, toks)[TotalIn(n, TotalTexts(n, toks))],
                    TotalMatchAt(n, TotalTexts(n, toks)[TotalIn(n, TotalTexts(n, toks))])))

extractTotalResults(html) == patterns(1, html.toks)

\* ------------------------------------------------------------------------
\* scrapeMobileSERP
\* ------------------------------------------------------------------------

\* what proxyFetch hands back
Rejected == [ok |-> FALSE, status |-> 0]
Response(status, html) == [ok |-> status \in 200..299, status |-> status, html |-> html]

ThrewError(message) == [kind |-> "throw", error |-> message]

SerpResponse(totalResults, organic, ads, peopleAlsoAsk, featuredSnippet, aiOverview, mapPack,
             knowledgePanel, relatedSearches) ==
    [totalResults |-> totalResults, organic |-> organic, ads |-> ads, peopleAlsoAsk |-> peopleAlsoAsk,
     featuredSnippet |-> featuredSnippet, aiOverview |-> aiOverview, mapPack |-> mapPack,
     knowledgePanel |-> knowledgePanel, relatedSearches |-> relatedSearches]

\* the extractors in the order of the source; decodeURIComponent throwing in one of the first
\* two ends the call
ExtractAll(html, organic, ads) ==
    IF organic = Threw \/ ads = Threw THEN ThrewError("URIError")
    ELSE Returned(SerpResponse(extractTotalResults(html), organic.value, ads.value,
                               extractPeopleAlsoAsk(html), extractFeaturedSnippet(html),
                               extractAiOverview(html), extractMapPack(html),
                               extractKnowledgePanel(html), extractRelatedSearches(html)))

\* the scrape without the two marker tests
scrapeMobileSERPUnchecked(response) ==
    IF response = Rejected THEN ThrewError("fetch")
    ELSE IF ~response.ok THEN ThrewError("http")
    ELSE ExtractAll(response.html, extractOrganicResults(response.html), extractAds(response.html))

scrapeMobileSERP(response) ==
    IF response = Rejected THEN ThrewError("fetch")
    ELSE IF ~response.ok THEN ThrewError("http")
    ELSE IF \E m \in {<<"c", "a", "p", "t", "c", "h", "a">>, <<"u", "n", "u", "s", "u", "a", "l", " ", "t", "r", "a", "f", "f", "i", "c">>, <<"d", "e", "t", "e", "c", "t", "e", "d", " ", "u", "n", "u", "s", "u", "a", "l">>} : pageIncludes(response.html, m) THEN ThrewError("captcha")
    ELSE IF \E m \in {<<"k", "n", "i", "t", "s", "a", "i", "l">>, <<"/", "h", "t", "t", "p", "s", "e", "r", "v", "i", "c", "e", "/", "r", "e", "t", "r", "y", "/", "e", "n", "a", "b", "l", "e", "j", "s">>} : pageIncludes(response.html, m) THEN ThrewError("challenge")
    ELSE ExtractAll(response.html, extractOrganicResults(response.html), extractAds(response.html))

\* ------------------------------------------------------------------------
\* State
\* ------------------------------------------------------------------------

VARIABLES
    fn,     \* the pure function that has been applied to arg, "none" before
    arg,    \* the argument drawn for it
    ret,    \* its result, "none" before
    call    \* the invocation of scrapeGoogleMaps in progress, null when there is none

pureVars == <<fn, arg, ret>>

vars == <<fn, arg, ret, call>>

\* ------------------------------------------------------------------------
\* Candidate names
\* ------------------------------------------------------------------------

JoesPizza == <<"J", "o", "e", "'", "s", " ", "P", "i", "z", "z", "a">>

JOESPIZZA == <<"J", "O", "E", "'", "S", " ", "P", "I", "Z", "Z", "A">>

SPONSORED == <<"S", "P", "O", "N", "S", "O", "R", "E", "D">>

AlsDeli == <<"A", "l", "'", "s", " ", "D", "e", "l", "i">>

TacoHut == <<"T", "a", "c", "o", " ", "H", "u", "t">>

\* how far around each threshold of the validator the candidate lengths go
MaxPad == 1

Thresholds == {MinNameLen, MaxWords, MaxCapsLen, MaxNameLen}

CandidateLens == {n \in 0..(MaxNameLen + MaxPad) : \E c \in Thresholds : n >= c - MaxPad /\ n <= c + MaxPad}

\* one-character units fill a name up to a length, word units up to a word count
CandidateUnits == {<<"a">>, <<"A">>, <<"7">>, <<"a", " ">>, <<"A", " ">>}

CandidatePrefixes == {<<>>, <<"\"">>, <<"'">>, <<" ">>}

CandidateSuffixes == {<<>>, <<"\"">>, <<"b">>}

NamePool ==
    {pre \o Rep(un[1], un[2]) \o suf :
        pre \in CandidatePrefixes,
        un \in {w \in CandidateUnits \X CandidateLens : Len(w[1]) = 1 \/ w[2] <= MaxWords + MaxPad},
        suf \in CandidateSuffixes}
    \cup {JoesPizza, JOESPIZZA, SPONSORED, AlsDeli, <<" ">> \o SPONSORED, <<>>}

\* ------------------------------------------------------------------------
\* Fragments and documents the fetches can return
\* ------------------------------------------------------------------------

Lat40 == <<"4", "0", ".", "7", "1", "2", "8">>

LngM74 == <<"-", "7", "4", ".", "0", "0", "6", "0">>

Lat95 == <<"9", "5", ".", "0", "0", "0", "0">>

Lng40 == <<"4", "0", ".", "0", "0", "0", "0">>

Rating45 == <<"4", ".", "5">>

Rating40 == <<"4", ".", "0">>

Rating95 == <<"9", ".", "5">>

Cid123 == <<"1", "2", "3">>

Cid456 == <<"4", "5", "6">>

Captcha == <<"c", "a", "p", "t", "c", "h", "a">>

UnusualTraffic == <<"u", "n", "u", "s", "u", "a", "l", " ", "t", "r", "a", "f", "f", "i", "c">>

DetectedUnusual == <<"d", "e", "t", "e", "c", "t", "e", "d", " ", "u", "n", "u", "s", "u", "a", "l">>

Knitsail == <<"k", "n", "i", "t", "s", "a", "i", "l">>

EnableJs == <<"/", "h", "t", "t", "p", "s", "e", "r", "v", "i", "c", "e", "/", "r", "e", "t", "r", "y", "/", "e", "n", "a", "b", "l", "e", "j", "s">>

\* the markers scrapeMobileSERP looks for: a CAPTCHA page, a security challenge
CaptchaMarkers == {Captcha, UnusualTraffic, DetectedUnusual}

GatewayMarkers == {Knitsail, EnableJs}

\* the space between two fragments of a document: inside or outside a context window
NearGap == 10

FarGap == 2500

Js(lat, lng, name) == [k |-> "js", at |-> 0, lat |-> lat, lng |-> lng, name |-> name]

Aria(name, id) == [k |-> "aria", at |-> 0, name |-> name, id |-> id]

Cls(name) == [k |-> "cls", at |-> 0, name |-> name]

LdItem(type, name, ratingValue, geo) ==
    [type |-> type, name |-> name, ratingValue |-> ratingValue, geo |-> geo, nat |-> 0]

LdScript(ok, items) ==
    [k |-> "ld", at |-> 0, w |-> 60 + 90 * Len(items),
     json |-> [ok |-> ok, nullValue |-> FALSE,
               items |-> [j \in 1..Len(items) |-> [items[j] EXCEPT !.nat = 90 * j]]]]

\* a script JSON.parse accepts in which some value is null ("telephone": null)
LdNullScript(items) == [LdScript(TRUE, items) EXCEPT !.json.nullValue = TRUE]

WizEntry(name, lat, lng) == [name |-> name, lat |-> lat, lng |-> lng, nat |-> 0]

Wiz(entries) ==
    [k |-> "wiz", at |-> 0, w |-> 30 + 130 * Len(entries),
     entries |-> [j \in 1..Len(entries) |-> [entries[j] EXCEPT !.nat = 130 * j - 100]]]

Rating(shape, txt) == [k |-> "rating", at |-> 0, shape |-> shape, txt |-> txt]

Coord(amp, lat, lng) == [k |-> "coord", at |-> 0, amp |-> amp, lat |-> lat, lng |-> lng]

Title(name) == [k |-> "title", at |-> 0, name |-> name]

Other(text) == [k |-> "text", at |-> 0, text |-> text]

\* the fragments laid out one after the other, gap characters apart
RECURSIVE Place(_, _, _, _)
Place(toks, i, at, gap) ==
    IF i > Len(toks) THEN <<>>
    ELSE <<[toks[i] EXCEPT !.at = at]>> \o Place(toks, i + 1, at + TokWidth(toks[i]) + gap, gap)

Laid(placed, gap) ==
    [len |-> IF placed = <<>> THEN 0
             ELSE placed[Len(placed)].at + TokWidth(placed[Len(placed)]) + gap,
     toks |-> placed]

Doc(toks, gap) == Laid(Place(toks, 1, gap, gap), gap)

EmptyDoc == Doc(<<>>, 0)

Card(cid, name, card) ==
    [k |-> "card", at |-> 0, w |-> 60 + Len(cid) + Len(name) + card.len, pre |-> 50 + Len(cid),
     cid |-> cid, name |-> name, card |-> card]

Osr(name, card) ==
    [k |-> "osr", at |-> 0, w |-> 40 + Len(name) + card.len, pre |-> 21, name |-> name, card |-> card]

Vkp(name, card) ==
    [k |-> "vkp", at |-> 0, w |-> 40 + Len(name) + card.len, pre |-> 26, name |-> name, card |-> card]

Kg(name) == [k |-> "kg", at |-> 0, w |-> 30 + Len(name), pre |-> 29, name |-> name]

\* sequences of one or two fragments of F
UpToTwo(F) == {<<a>> : a \in F} \cup {<<a, b>> : a \in F, b \in F}

MapsFragments ==
    { Js(Lat40, LngM74, JoesPizza),
      Js(Lat95, Lng40, AlsDeli),
      Js(Lat40, LngM74, <<" ">> \o JoesPizza),
      Aria(JOESPIZZA, Cid123),
      Aria(SPONSORED, Cid456),
      Cls(AlsDeli),
      LdScript(TRUE, <<LdItem(Text(LocalBusinessType), Text(SPONSORED), Text(Rating95),
                              [latitude |-> Lat95, longitude |-> Lng40])>>),
      LdScript(TRUE, <<LdItem(Text(RestaurantType), Text(JoesPizza), Text(Rating45), null),
                       LdItem(Text(StoreType), null, null, null)>>),
      LdScript(FALSE, <<>>),
      LdNullScript(<<LdItem(Text(RestaurantType), Text(TacoHut), null, null)>>),
      Wiz(<<WizEntry(AlsDeli, Lat95, Lng40)>>),
      Rating("stars", Rating45),
      Rating("paren", Rating95),
      Coord(TRUE, Lat40, LngM74),
      Coord(FALSE, Lat95, Lng40),
      Other(Captcha) }

LocalFragments ==
    { Card(Cid123, JoesPizza, Doc(<<Rating("paren", Rating45)>>, 1)),
      Card(Cid456, AlsDeli, Doc(<<Rating("paren", Rating95)>>, 1)),
      Osr(JOESPIZZA, Doc(<<Rating("stars", Rating40)>>, 1)),
      Vkp(AlsDeli, EmptyDoc),
      Vkp(SPONSORED, Doc(<<Rating("stars", Rating45)>>, 1)),
      Other(UnusualTraffic) }

SearchFragments ==
    { Vkp(AlsDeli, Doc(<<Rating("stars", Rating45)>>, 1)),
      Kg(JOESPIZZA),
      Kg(SPONSORED),
      Rating("paren", Rating40),
      Coord(TRUE, Lat95, Lng40),
      Coord(TRUE, Lat40, LngM74),
      Other(Captcha) }

DetailFragments ==
    { Title(JoesPizza \o GoogleMapsSuffix),
      Title(SPONSORED),
      Rating("stars", Rating45),
      Rating("stars", Rating95),
      Coord(TRUE, Lat40, LngM74),
      Coord(TRUE, Lat95, Lng40) }

DocsOf(F) == {EmptyDoc} \cup {Doc(s, g) : s \in UpToTwo(F), g \in {NearGap, FarGap}}

MapsDocs == DocsOf(MapsFragments)

LocalDocs == DocsOf(LocalFragments)

SearchDocs == DocsOf(SearchFragments)

DetailDocs == DocsOf(DetailFragments)

\* the documents the three fetches of one invocation can return
LocalPages ==
    { EmptyDoc,
      Doc(<<Card(Cid123, JoesPizza, Doc(<<Rating("paren", Rating45)>>, 1))>>, NearGap),
      Doc(<<Card(Cid123, JoesPizza, Doc(<<Rating("paren", Rating45)>>, 1)),
            Card(Cid456, AlsDeli, Doc(<<Rating("paren", Rating95)>>, 1))>>, NearGap),
      Doc(<<Osr(JOESPIZZA, Doc(<<Rating("stars", Rating40)>>, 1)),
            Card(Cid123, JoesPizza, Doc(<<Rating("paren", Rating45)>>, 1))>>, NearGap),
      Doc(<<Other(UnusualTraffic),
            Card(Cid123, JoesPizza, Doc(<<Rating("paren", Rating45)>>, 1))>>, NearGap),
      Doc(<<Vkp(SPONSORED, EmptyDoc)>>, NearGap),
      Doc(<<Card(Cid456, AlsDeli, EmptyDoc),
            Osr(JOESPIZZA, Doc(<<Rating("stars", Rating40)>>, 1)),
            Vkp(TacoHut, EmptyDoc)>>, NearGap) }

MapsPages ==
    { EmptyDoc,
      Doc(<<Js(Lat40, LngM74, JoesPizza)>>, NearGap),
      Doc(<<Aria(JOESPIZZA, Cid123), Rating("stars", Rating45), Coord(TRUE, Lat40, LngM74)>>, NearGap),
      Doc(<<Js(Lat95, Lng40, AlsDeli), Cls(AlsDeli)>>, NearGap),
      Doc(<<LdScript(TRUE, <<LdItem(Text(LocalBusinessType), Text(SPONSORED), Text(Rating95),
                                    [latitude |-> Lat95, longitude |-> Lng40])>>)>>, NearGap),
      Doc(<<LdScript(TRUE, <<LdItem(Text(RestaurantType), Text(JoesPizza), Text(Rating45), null)>>),
            Js(Lat40, LngM74, <<" ">> \o JoesPizza)>>, NearGap),
      Doc(<<Other(Captcha), Aria(JOESPIZZA, Cid123)>>, NearGap),
      Doc(<<Wiz(<<WizEntry(AlsDeli, Lat95, Lng40)>>), LdScript(FALSE, <<>>)>>, NearGap),
      Doc(<<LdNullScript(<<LdItem(Text(RestaurantType), Text(TacoHut), null, null)>>),
            Cls(AlsDeli)>>, NearGap),
      Doc(<<Js(Lat40, LngM74, JoesPizza), Aria(JOESPIZZA, Cid123), Cls(TacoHut), Cls(AlsDeli)>>,
          NearGap),
      Doc(<<LdScript(TRUE, <<LdItem(Text(RestaurantType), Text(TacoHut), null, null)>>),
            Rating("stars", Rating45)>>, NearGap) }

SearchPages ==
    { EmptyDoc,
      Doc(<<Vkp(AlsDeli, Doc(<<Rating("stars", Rating45)>>, 1))>>, NearGap),
      Doc(<<Kg(JOESPIZZA), Rating("paren", Rating40), Coord(TRUE, Lat40, LngM74)>>, NearGap),
      Doc(<<Kg(SPONSORED)>>, NearGap),
      Doc(<<Other(Captcha), Kg(JOESPIZZA)>>, NearGap),
      Doc(<<Vkp(TacoHut, EmptyDoc), Kg(JoesPizza), Coord(TRUE, Lat95, Lng40)>>, NearGap) }

\* what proxyFetch can answer for a strategy
Responses(strategy) ==
    {Threw, NotOk}
    \cup {Ok(d) : d \in CASE strategy = "local" -> LocalPages
                          [] strategy = "maps" -> MapsPages
                          [] strategy = "search" -> SearchPages}

\* the largest limit and the largest start index an invocation is given
MaxLimit == 3

MaxStart == 1

\* ------------------------------------------------------------------------
\* One invocation of scrapeGoogleMaps
\* ------------------------------------------------------------------------

Init ==
    /\ fn = "none" /\ arg = "none" /\ ret = "none"
    /\ call \in {NewCall(limit, startIndex) : limit \in 1..MaxLimit, startIndex \in 0..MaxStart}

\* Strategy 1 always runs
LocalSearch ==
    /\ call.pc = "local"
    /\ \E resp \in Responses("local") : call' = RunStrategy(call, resp)
    /\ UNCHANGED pureVars

GoogleMaps ==
    /\ call.pc = "maps"
    /\ \/ ShouldRun(call) /\ \E resp \in Responses("maps") : call' = RunStrategy(call, resp)
       \/ ~ShouldRun(call) /\ call' = SkipStrategy(call)
    /\ UNCHANGED pureVars

GoogleSearch ==
    /\ call.pc = "search"
    /\ \/ ShouldRun(call) /\ \E resp \in Responses("search") : call' = RunStrategy(call, resp)
       \/ ~ShouldRun(call) /\ call' = SkipStrategy(call)
    /\ UNCHANGED pureVars

Return ==
    /\ call.pc = "return"
    /\ call' = ReturnResult(call)
    /\ UNCHANGED pureVars

Next == LocalSearch \/ GoogleMaps \/ GoogleSearch \/ Return

Spec == Init /\ [][Next]_vars

\* the invocation has returned
Done == call.pc = "done"

IsOk(got) == got.kind = "response" /\ got.ok

\* the document holds one of the markers
HasMarker(html, markers) == \E m \in markers : htmlIncludes(html, m)

\* the documents the invocation fetched
FetchedDocs == {call.fetched[i].got.html : i \in {n \in 1..Len(call.fetched) : IsOk(call.fetched[n].got)}}

\* C1: a fetched document that holds a recognized challenge marker makes the
\* pipeline fail and return zero records, whatever else the document holds.
\* Stated for scrapeGoogleMaps: once a document with a marker has been fetched,
\* the invocation returns no business.
C1_ChallengeReturnsNothing ==
    Done /\ (\E d \in FetchedDocs : HasMarker(d, CaptchaMarkers \cup GatewayMarkers))
        => Len(call.result.businesses) = 0

\* C2: no two businesses of the returned list have the same case-folded name.
C2_UniqueNames ==
    Done => \A i, j \in 1..Len(call.result.businesses) :
                toLowerCase(call.result.businesses[i].name) = toLowerCase(call.result.businesses[j].name)
                    => i = j

\* what the extractor of the i-th strategy yielded, as the merge loop would push it
Yield(i) ==
    IF ~IsOk(call.fetched[i].got) THEN <<>>
    ELSE IF call.fetched[i].strategy = "maps"
         THEN [n \in 1..Len(StrategyFound("maps", call.fetched[i].got.html)) |->
                 enrichBusinessData(StrategyFound("maps", call.fetched[i].got.html)[n],
                                    call.fetched[i].got.html)]
         ELSE StrategyFound(call.fetched[i].strategy, call.fetched[i].got.html)

Yields == Yield(1) \o Yield(2) \o Yield(3)

\* two strategies yielded names that differ only in case, and two businesses were returned
C2_Witness ==
    /\ Done
    /\ Len(call.result.businesses) >= 2
    /\ \E i, j \in 1..3 : i < j /\ \E a \in 1..Len(Yield(i)), b \in 1..Len(Yield(j)) :
            /\ Yield(i)[a].name # Yield(j)[b].name
            /\ toLowerCase(Yield(i)[a].name) = toLowerCase(Yield(j)[b].name)

\* every valid match of one expression, as a record, with no seen-names test
RECURSIVE RawStrategy(_, _, _)
RawStrategy(html, kind, i) ==
    IF i > Len(html.toks) THEN <<>>
    ELSE (IF StrategyMatches(kind, html.toks[i]) /\ isValidBusinessName(CandidateName(html.toks[i]))
          THEN <<CandidateBusiness(html, html.toks[i], CandidateName(html.toks[i]))>> ELSE <<>>)
         \o RawStrategy(html, kind, i + 1)

RECURSIVE RawJsonLd(_, _)
RawJsonLd(html, i) ==
    IF i > Len(html.toks) THEN <<>>
    ELSE (IF html.toks[i].k = "ld" /\ html.toks[i].json.ok /\ ~processItemThrows(html.toks[i].json)
          THEN extractFromJsonLd(html.toks[i].json) ELSE <<>>)
         \o RawJsonLd(html, i + 1)

RECURSIVE RawCards(_, _, _)
RawCards(html, pattern, i) ==
    IF i > Len(html.toks) THEN <<>>
    ELSE (IF /\ CardMatches(pattern, html.toks[i])
             /\ isValidBusinessName(decodeHtmlEntities(trim(html.toks[i].name)))
          THEN <<CardBusiness(html, html.toks[i], decodeHtmlEntities(trim(html.toks[i].name)))>>
          ELSE <<>>)
         \o RawCards(html, pattern, i + 1)

\* the candidates of a document in the order the strategy discovers them
Candidates(strategy, html) ==
    CASE strategy = "local" ->
            RawCards(html, cardPattern, 1) \o RawCards(html, altPattern, 1) \o RawCards(html, vkpPattern, 1)
      [] strategy = "maps" ->
            LET raw == RawStrategy(html, "js", 1) \o RawStrategy(html, "aria", 1)
                       \o RawStrategy(html, "cls", 1) \o RawJsonLd(html, 1)
                       \o (IF WizAt(html) = {} THEN <<>>
                           ELSE parseWizData(html.toks[SetMin(WizAt(html))].entries))
            IN  [n \in 1..Len(raw) |-> enrichBusinessData(raw[n], html)]
      [] strategy = "search" ->
            RawCards(html, localPackPattern, 1) \o RawCards(html, kgPattern, 1)

Discovered(i) ==
    IF IsOk(call.fetched[i].got) THEN Candidates(call.fetched[i].strategy, call.fetched[i].got.html)
    ELSE <<>>

AllDiscovered == Discovered(1) \o Discovered(2) \o Discovered(3)

\* the records of s whose case-folded name no earlier record of s has
RECURSIVE FirstOccurrences(_, _)
FirstOccurrences(s, i) ==
    IF i > Len(s) THEN <<>>
    ELSE (IF \E j \in 1..(i - 1) : toLowerCase(s[j].name) = toLowerCase(s[i].name)
          THEN <<>> ELSE <<s[i]>>)
         \o FirstOccurrences(s, i + 1)

\* C4: first-seen attribution wins. Every returned business is exactly the record
\* built from the first-discovered candidate with its case-folded name, and the
\* returned list is the strategies' yields in order, each case-folded name kept
\* at its first occurrence only, cut at limit: a later candidate is dropped and
\* none of its fields are merged in.
C4_FirstSeenWins ==
    Done =>
        /\ \A n \in 1..Len(call.result.businesses) :
                call.result.businesses[n] =
                    AllDiscovered[SetMin({i \in 1..Len(AllDiscovered) :
                        toLowerCase(AllDiscovered[i].name) = toLowerCase(call.result.businesses[n].name)})]
        /\ call.result.businesses = SliceTo(FirstOccurrences(Yields, 1), call.limit)

\* two candidates with the same case-folded name gave different records, and the
\* first one's record was returned
C4_Witness ==
    /\ Done
    /\ \E i, j \in 1..Len(AllDiscovered) :
            /\ i < j
            /\ toLowerCase(AllDiscovered[i].name) = toLowerCase(AllDiscovered[j].name)
            /\ AllDiscovered[i] # AllDiscovered[j]
            /\ \A h \in 1..(i - 1) : toLowerCase(AllDiscovered[h].name) # toLowerCase(AllDiscovered[i].name)
            /\ \E n \in 1..Len(call.result.businesses) : call.result.businesses[n] = AllDiscovered[i]

StrategyOrder == <<"local", "maps", "search">>

\* C10: the strategies run in the order local search, maps, web search; a later
\* strategy is started only while fewer than limit unique businesses are held;
\* the returned list never has more than limit entries.
C10_OrderAndLimit ==
    /\ \A i \in 1..Len(call.fetched) :
            /\ call.fetched[i].strategy = StrategyOrder[i]
            /\ (call.fetched[i].got # Skipped) <=> (i = 1 \/ call.fetched[i].held < call.limit)
    /\ Done => /\ Len(call.fetched) = Len(StrategyOrder)
               /\ Len(call.result.businesses) <= call.limit

\* the local search alone reached the limit: the two later strategies were not started
C10_Witness ==
    /\ Done
    /\ call.fetched[2].got = Skipped /\ call.fetched[3].got = Skipped
    /\ Len(call.result.businesses) = call.limit

\* ------------------------------------------------------------------------
\* The extractors of the business pipeline applied to one document
\* ------------------------------------------------------------------------

InitExtract ==
    /\ fn = "none" /\ ret = "none" /\ call = null
    /\ arg \in MapsDocs \cup LocalDocs \cup SearchDocs \cup DetailDocs

ApplyExtractBusinessesFromHtml ==
    /\ fn = "none"
    /\ fn' = "extractBusinessesFromHtml"
    /\ ret' = extractBusinessesFromHtml(arg)
    /\ UNCHANGED <<arg, call>>

ApplyExtractFromGoogleLocalSearch ==
    /\ fn = "none"
    /\ fn' = "extractFromGoogleLocalSearch"
    /\ ret' = extractFromGoogleLocalSearch(arg)
    /\ UNCHANGED <<arg, call>>

ApplyExtractFromGoogleSearch ==
    /\ fn = "none"
    /\ fn' = "extractFromGoogleSearch"
    /\ ret' = extractFromGoogleSearch(arg)
    /\ UNCHANGED <<arg, call>>

\* the /details route hands the document to extractDetailedBusiness
ApplyExtractDetailedBusiness ==
    /\ fn = "none"
    /\ fn' = "extractDetailedBusiness"
    /\ ret' = extractDetailedBusiness(arg, Cid123)
    /\ UNCHANGED <<arg, call>>

NextExtract ==
    \/ ApplyExtractBusinessesFromHtml
    \/ ApplyExtractFromGoogleLocalSearch
    \/ ApplyExtractFromGoogleSearch
    \/ ApplyExtractDetailedBusiness

SpecExtract == InitExtract /\ [][NextExtract]_vars

\* the records the applied extractor emitted
Emitted ==
    IF fn = "none" THEN <<>>
    ELSE IF fn = "extractDetailedBusiness" THEN <<ret>>
    ELSE ret

\* C5: every business record emitted by an extraction path (context window,
\* JSON-LD, local-search cards, place detail) has a rating that is absent
\* (null) or a number within [1,5].
C5_RatingAbsentOrInRange ==
    \A i \in 1..Len(Emitted) :
        Emitted[i].rating = null \/ Between(Emitted[i].rating, 1, 5)

\* C6: every emitted business record has coordinates that are absent or have
\* a latitude in [-90,90] and a longitude in [-180,180]; a matched pair
\* (95, 40) is never emitted.
C6_CoordinatesAbsentOrInRange ==
    \A i \in 1..Len(Emitted) :
        \/ Emitted[i].coordinates = null
        \/ ValidLatLng(Emitted[i].coordinates.latitude, Emitted[i].coordinates.longitude)

\* C7: every business a strategy of the business pipeline puts in its output
\* has a name isValidBusinessName accepts; "SPONSORED" is never emitted.
C7_OnlyValidNamesEmitted ==
    fn \in {"extractBusinessesFromHtml", "extractFromGoogleLocalSearch", "extractFromGoogleSearch"} =>
        \A i \in 1..Len(ret) :
            isValidBusinessName(ret[i].name) /\ ret[i].name # SPONSORED

\* ------------------------------------------------------------------------
\* Pages of the search pipeline
\* ------------------------------------------------------------------------

Element(tag, attrs, inner) == <<OpenTag(tag, attrs)>> \o inner \o <<CloseTag(tag)>>

\* <a href="..">text</a>
Anchor(href, text) == Element("a", <<Attr("href", href)>>, <<TextNode(text)>>)

\* <div class=".."><a href=".."><h3>title</h3></a><div class="VwiC3b">snippet</div></div>
ResultBlock(cls, href, title, snippet) ==
    Element("div", <<Attr("class", cls)>>,
        Element("a", <<Attr("href", href)>>, Element("h3", <<>>, <<TextNode(title)>>))
        \o Element("div", <<Attr("class", <<"V", "w", "i", "C", "3", "b">>)>>, <<TextNode(snippet)>>))

\* a result block that ends with <a class="fl" href="..">text</a>
ResultWithSitelink(href, title, snippet, linkHref, linkText) ==
    Element("div", <<Attr("class", <<"M", "j", "j", "Y", "u", "d">>)>>,
        Element("a", <<Attr("href", href)>>, Element("h3", <<>>, <<TextNode(title)>>))
        \o Element("div", <<Attr("class", <<"V", "w", "i", "C", "3", "b">>)>>, <<TextNode(snippet)>>)
        \o Element("a", <<Attr("class", <<"f", "l">>), Attr("href", linkHref)>>, <<TextNode(linkText)>>))

\* <h3 class="r"><a href="..">title</a></h3><span class="st">snippet</span>
BasicResult(href, title, snippet) ==
    Element("h3", <<Attr("class", <<"r">>)>>, Anchor(href, title))
    \o Element("span", <<Attr("class", <<"s", "t">>)>>, <<TextNode(snippet)>>)

\* <div class="g"><a href="..">title</a><span class="st">snippet</span></div>
GBlock(href, title, snippet) ==
    Element("div", <<Attr("class", <<"g">>)>>,
        Anchor(href, title) \o Element("span", <<Attr("class", <<"s", "t">>)>>, <<TextNode(snippet)>>))

\* <a data-rw="1" href="..">title</a>
AdAnchor(href, title) == Element("a", <<Attr("data-rw", <<"1">>), Attr("href", href)>>, <<TextNode(title)>>)

\* <div id="tads">..</div>, <div id="bottomads">..</div>
AdsSection(id, links) == Element("div", <<Attr("id", id)>>, links)

\* <span>Sponsored</span><a href="..">title</a>
Sponsored(href, title) == Element("span", <<>>, <<TextNode(<<"S", "p", "o", "n", "s", "o", "r", "e", "d">>)>>) \o Anchor(href, title)

\* <div data-q=".."></div>
Question(q) == Element("div", <<Attr("data-q", q)>>, <<>>)

\* <div aria-expanded="false"><span>..</span></div>
Expanded(q) == Element("div", <<Attr("aria-expanded", <<"f", "a", "l", "s", "e">>)>>, Element("span", <<>>, <<TextNode(q)>>))

\* <div jsname="x" class="related-question"><span>..</span></div>
RelatedQuestion(q) ==
    Element("div", <<Attr("jsname", <<"x">>), Attr("class", <<"r", "e", "l", "a", "t", "e", "d", "-", "q", "u", "e", "s", "t", "i", "o", "n">>)>>,
        Element("span", <<>>, <<TextNode(q)>>))

\* <div class="VkpGBb"><div><span class="OSrXXb">name</span>details</div></div>
LocalCard(name, details) ==
    Element("div", <<Attr("class", <<"V", "k", "p", "G", "B", "b">>)>>,
        Element("div", <<>>,
            Element("span", <<Attr("class", <<"O", "S", "r", "X", "X", "b">>)>>, <<TextNode(name)>>) \o <<TextNode(details)>>))

\* <div data-cid=".."><div aria-label="name">details</div></div>
CidCard(cid, name, details) ==
    Element("div", <<Attr("data-cid", cid)>>,
        Element("div", <<Attr("aria-label", name)>>, <<TextNode(details)>>))

\* <a class="k8XOCe"><div>query</div></a>
RelatedLink(query) == Element("a", <<Attr("class", <<"k", "8", "X", "O", "C", "e">>)>>, Element("div", <<>>, <<TextNode(query)>>))

\* <a href="/search?q=.." class="fl">query</a>
SearchLink(q, query) ==
    Element("a", <<Attr("href", <<"/", "s", "e", "a", "r", "c", "h", "?", "q", "=">> \o q), Attr("class", <<"f", "l">>)>>, <<TextNode(query)>>)

\* <div class="xpdopen">text<a href="..">source</a></div><div></div>
Featured(text, href) ==
    Element("div", <<Attr("class", <<"x", "p", "d", "o", "p", "e", "n">>)>>, <<TextNode(text)>> \o Anchor(href, <<"s", "o", "u", "r", "c", "e">>))
    \o Element("div", <<>>, <<>>)

\* <div data-tts="answers">text</div>
Answer(text) == Element("div", <<Attr("data-tts", <<"a", "n", "s", "w", "e", "r", "s">>)>>, <<TextNode(text)>>)

\* <div data-attrid="ai_overview">text<a href="..">source</a></div>
Overview(text, href) ==
    Element("div", <<Attr("data-attrid", <<"a", "i", "_", "o", "v", "e", "r", "v", "i", "e", "w">>)>>, <<TextNode(text)>> \o Anchor(href, <<"s", "o", "u", "r", "c", "e">>))

\* <div><div class="mod">AI Overview text</div></div>
LabelledOverview(text) ==
    Element("div", <<>>, Element("div", <<Attr("class", <<"m", "o", "d">>)>>, <<TextNode(<<"A", "I", " ", "O", "v", "e", "r", "v", "i", "e", "w", " ">> \o text)>>))

\* <div data-attrid="title">title</div>
PanelTitle(title) == Element("div", <<Attr("data-attrid", <<"t", "i", "t", "l", "e">>)>>, <<TextNode(title)>>)

\* <div class="kp-wholepage"><div><div><h2 class="qrShPb">title</h2></div></div></div>
WholePanel(title) ==
    Element("div", <<Attr("class", <<"k", "p", "-", "w", "h", "o", "l", "e", "p", "a", "g", "e">>)>>,
        Element("div", <<>>,
            Element("div", <<>>, Element("h2", <<Attr("class", <<"q", "r", "S", "h", "P", "b">>)>>, <<TextNode(title)>>))))

\* the panel with <a href=".." class="ab_button">Website</a> behind the heading
LinkedPanel(title, href) ==
    Element("div", <<Attr("class", <<"k", "p", "-", "w", "h", "o", "l", "e", "p", "a", "g", "e">>)>>,
        Element("div", <<>>,
            Element("div", <<>>,
                Element("h2", <<Attr("class", <<"q", "r", "S", "h", "P", "b">>)>>, <<TextNode(title)>>)
                \o Element("a", <<Attr("href", href), Attr("class", <<"a", "b", "_", "b", "u", "t", "t", "o", "n">>)>>, <<TextNode(<<"W", "e", "b", "s", "i", "t", "e">>)>>))))

\* the panel with <div data-attrid="id"><span>value</span></div> behind the heading
AttributePanel(title, id, value) ==
    Element("div", <<Attr("class", <<"k", "p", "-", "w", "h", "o", "l", "e", "p", "a", "g", "e">>)>>,
        Element("div", <<>>,
            Element("div", <<>>,
                Element("h2", <<Attr("class", <<"q", "r", "S", "h", "P", "b">>)>>, <<TextNode(title)>>)
                \o Element("div", <<Attr("data-attrid", id)>>,
                           Element("span", <<>>, <<TextNode(value)>>)))))

\* <div data-attrid="id">title<span>value</span></div>
TitledPanel(id, title, value) ==
    Element("div", <<Attr("data-attrid", id)>>,
        <<TextNode(title)>> \o Element("span", <<>>, <<TextNode(value)>>))

\* <div id="..">text</div>
Stats(id, text) == Element("div", <<Attr("id", id)>>, <<TextNode(text)>>)

\* <p>text</p>
Paragraph(text) == Element("p", <<>>, <<TextNode(text)>>)

\* -- the pools

\* two addresses of one page, another page, a redirect with a malformed escape, a page of Google
OrganicUrls ==
    {<<"/", "u", "r", "l", "?", "q", "=", "h", "t", "t", "p", "s", ":", "/", "/", "a", ".", "c", "o", "m", "/", "&", "s", "a", "=", "U">>, <<"h", "t", "t", "p", "s", ":", "/", "/", "a", ".", "c", "o", "m", "/">>, <<"h", "t", "t", "p", "s", ":", "/", "/", "b", ".", "o", "r", "g", "/", "x">>, <<"/", "u", "r", "l", "?", "q", "=", "%", "E", "0", "%", "A", "4", "%", "A">>,
     <<"h", "t", "t", "p", "s", ":", "/", "/", "w", "w", "w", ".", "g", "o", "o", "g", "l", "e", ".", "c", "o", "m", "/", "m", "a", "p", "s">>}

OrganicFragments ==
    {ResultBlock(<<"M", "j", "j", "Y", "u", "d">>, u, <<"A", "l", "p", "h", "a", " ", "S", "i", "t", "e">>, <<"A", "l", "p", "h", "a", " ", "s", "n", "i", "p", "p", "e", "t", " ", "t", "e", "x", "t">>) : u \in OrganicUrls}
    \cup {ResultBlock(<<"M", "j", "j", "Y", "u", "d">>, <<"h", "t", "t", "p", "s", ":", "/", "/", "c", ".", "i", "o", "/">>, <<"C", "a", "c", "h", "e", "d">>, <<"A", "l", "p", "h", "a", " ", "s", "n", "i", "p", "p", "e", "t", " ", "t", "e", "x", "t">>)}
    \cup {ResultWithSitelink(<<"h", "t", "t", "p", "s", ":", "/", "/", "a", ".", "c", "o", "m", "/">>, <<"A", "l", "p", "h", "a", " ", "S", "i", "t", "e">>, <<"A", "l", "p", "h", "a", " ", "s", "n", "i", "p", "p", "e", "t", " ", "t", "e", "x", "t">>, u, <<"S", "i", "m", "i", "l", "a", "r">>) :
            u \in {<<"h", "t", "t", "p", "s", ":", "/", "/", "a", ".", "c", "o", "m", "/", "p", "r", "i", "c", "i", "n", "g">>, <<"/", "s", "e", "a", "r", "c", "h", "?", "q", "=", "r", "e", "l", "a", "t", "e", "d", ":", "a", ".", "c", "o", "m">>, <<"h", "t", "t", "p", "s", ":", "/", "/", "w", "w", "w", ".", "g", "o", "o", "g", "l", "e", ".", "c", "o", "m", "/", "m", "a", "p", "s">>}}
    \cup {BasicResult(u, <<"A", "l", "p", "h", "a", " ", "S", "i", "t", "e">>, <<"A", "l", "p", "h", "a", " ", "s", "n", "i", "p", "p", "e", "t", " ", "t", "e", "x", "t">>) :
            u \in {<<"/", "u", "r", "l", "?", "q", "=", "h", "t", "t", "p", "s", ":", "/", "/", "a", ".", "c", "o", "m", "/", "&", "s", "a", "=", "U">>, <<"h", "t", "t", "p", "s", ":", "/", "/", "a", ".", "c", "o", "m", "/">>}}
    \cup {GBlock(u, <<"A", "l", "p", "h", "a", " ", "S", "i", "t", "e">>, <<"A", "l", "p", "h", "a", " ", "s", "n", "i", "p", "p", "e", "t", " ", "t", "e", "x", "t">>) :
            u \in {<<"/", "u", "r", "l", "?", "s", "a", "=", "t", "&", "u", "r", "l", "=", "h", "t", "t", "p", "s", ":", "/", "/", "a", ".", "c", "o", "m", "/">>, <<"h", "t", "t", "p", "s", ":", "/", "/", "a", ".", "c", "o", "m", "/">>}}
    \cup {Anchor(u, <<"A", "l", "p", "h", "a", " ", "S", "i", "t", "e">>) :
            u \in {<<"/", "u", "r", "l", "?", "q", "=", "h", "t", "t", "p", "s", ":", "/", "/", "a", ".", "c", "o", "m", "/", "&", "s", "a", "=", "U">>, <<"/", "u", "r", "l", "?", "q", "=", "h", "t", "t", "p", "s", ":", "/", "/", "a", ".", "c", "o", "m", "/">>, <<"h", "t", "t", "p", "s", ":", "/", "/", "a", ".", "c", "o", "m", "/">>}}

AdUrls ==
    {<<"h", "t", "t", "p", "s", ":", "/", "/", "s", "h", "o", "p", ".", "c", "o", "m", "/">>, <<"/", "a", "c", "l", "k", "?", "s", "a", "=", "l", "&", "a", "d", "u", "r", "l", "=", "h", "t", "t", "p", "s", ":", "/", "/", "s", "h", "o", "p", ".", "c", "o", "m", "/">>, <<"h", "t", "t", "p", "s", ":", "/", "/", "d", "e", "a", "l", ".", "n", "e", "t", "/">>, <<"/", "a", "c", "l", "k", "?", "s", "a", "=", "l">>,
     <<"/", "a", "c", "l", "k", "?", "a", "d", "u", "r", "l", "=", "%", "E", "0", "%", "A", "4", "%", "A">>}

AdAnchors == {AdAnchor(u, <<"S", "h", "o", "p", " ", "n", "o", "w">>) : u \in AdUrls}

\* the sections with a result block between them, the section at the bottom ending the page
AdLayouts ==
    {<<AdsSection(<<"t", "a", "d", "s">>, x \o y), ResultBlock(<<"M", "j", "j", "Y", "u", "d">>, <<"h", "t", "t", "p", "s", ":", "/", "/", "b", ".", "o", "r", "g", "/", "x">>, <<"A", "l", "p", "h", "a", " ", "S", "i", "t", "e">>, <<"A", "l", "p", "h", "a", " ", "s", "n", "i", "p", "p", "e", "t", " ", "t", "e", "x", "t">>),
       AdsSection(<<"b", "o", "t", "t", "o", "m", "a", "d", "s">>, z)>> :
        x \in AdAnchors, y \in AdAnchors \cup {<<>>},
        z \in {AdAnchor(u, <<"S", "h", "o", "p", " ", "n", "o", "w">>) : u \in {<<"h", "t", "t", "p", "s", ":", "/", "/", "s", "h", "o", "p", ".", "c", "o", "m", "/">>, <<"h", "t", "t", "p", "s", ":", "/", "/", "d", "e", "a", "l", ".", "n", "e", "t", "/">>}}}

SponsoredFragments == {Sponsored(u, <<"S", "h", "o", "p", " ", "n", "o", "w">>) : u \in AdUrls}

QuestionFragments ==
    {Question(q) : q \in {<<"W", "h", "a", "t", " ", "i", "s", " ", "T", "L", "A", "?">>, <<"w", "h", "a", "t", " ", "i", "s", " ", "t", "l", "a", "?">>, <<"W", "h", "y", " ", "u", "s", "e", " ", "i", "t", "?">>}}
    \cup {Expanded(q) : q \in {<<"W", "h", "a", "t", " ", "i", "s", " ", "a", " ", "m", "o", "d", "e", "l", " ", "c", "h", "e", "c", "k", "e", "r", "?">>, <<"W", "H", "A", "T", " ", "I", "S", " ", "A", " ", "M", "O", "D", "E", "L", " ", "C", "H", "E", "C", "K", "E", "R", "?">>, <<"M", "o", "d", "e", "l", " ", "c", "h", "e", "c", "k", "e", "r", "s">>}}
    \cup {RelatedQuestion(q) : q \in {<<"H", "o", "w", " ", "d", "o", "e", "s", " ", "T", "L", "C", " ", "w", "o", "r", "k", "?">>, <<"h", "o", "w", " ", "d", "o", "e", "s", " ", "T", "L", "C", " ", "w", "o", "r", "k", "?">>}}

MapFragments ==
    {LocalCard(n, d) : n \in {JoesPizza, JOESPIZZA, AlsDeli}, d \in {<<"4", ".", "5", " ", "(", "1", "2", ")">>, <<"9", ".", "5", " ", "s", "t", "a", "r", "s">>}}
    \cup {CidCard(Cid123, n, <<"4", ".", "0", " ", "s", "t", "a", "r", "s">>) : n \in {JoesPizza, JOESPIZZA}}

RelatedFragments ==
    {RelatedLink(q) : q \in {<<"t", "l", "a", " ", "p", "l", "u", "s">>, <<"T", "L", "A", " ", "P", "l", "u", "s">>, <<"m", "o", "d", "e", "l", " ", "c", "h", "e", "c", "k", "i", "n", "g">>}}
    \cup {SearchLink(<<"t", "l", "a">>, q) : q \in {<<"t", "l", "a", " ", "p", "l", "u", "s">>, <<"T", "L", "A", " ", "P", "L", "U", "S">>}}

SingleFragments ==
    { Featured(<<"T", "L", "A", "+", " ", "i", "s", " ", "a", " ", "s", "p", "e", "c", "i", "f", "i", "c", "a", "t", "i", "o", "n", " ", "l", "a", "n", "g", "u", "a", "g", "e", ".">>, <<"h", "t", "t", "p", "s", ":", "/", "/", "a", ".", "c", "o", "m", "/">>),
      Featured(<<"T", "o", "o", " ", "s", "h", "o", "r", "t">>, <<"h", "t", "t", "p", "s", ":", "/", "/", "a", ".", "c", "o", "m", "/">>),
      Featured(<<"T", "L", "A", "+", " ", "i", "s", " ", "a", " ", "s", "p", "e", "c", "i", "f", "i", "c", "a", "t", "i", "o", "n", " ", "l", "a", "n", "g", "u", "a", "g", "e", ".">>, <<"h", "t", "t", "p", "s", ":", "/", "/", "w", "w", "w", ".", "g", "o", "o", "g", "l", "e", ".", "c", "o", "m", "/", "s", "e", "a", "r", "c", "h", "?", "q", "=", "t", "l", "a">>),
      Answer(<<"T", "L", "C", " ", "i", "s", " ", "t", "h", "e", " ", "m", "o", "d", "e", "l", " ", "c", "h", "e", "c", "k", "e", "r", " ", "o", "f", " ", "T", "L", "A", "+", ".">>),
      Overview(<<"T", "L", "A", "+", " ", "m", "o", "d", "e", "l", "s", " ", "a", "r", "e", " ", "c", "h", "e", "c", "k", "e", "d", " ", "b", "y", " ", "T", "L", "C", ",", " ", "s", "t", "a", "t", "e", " ", "b", "y", " ", "s", "t", "a", "t", "e", ".">>, <<"h", "t", "t", "p", "s", ":", "/", "/", "b", ".", "o", "r", "g", "/", "x">>),
      Overview(<<"S", "h", "o", "r", "t", " ", "o", "v", "e", "r", "v", "i", "e", "w">>, <<"h", "t", "t", "p", "s", ":", "/", "/", "b", ".", "o", "r", "g", "/", "x">>),
      Overview(<<"T", "L", "A", "+", " ", "m", "o", "d", "e", "l", "s", " ", "a", "r", "e", " ", "c", "h", "e", "c", "k", "e", "d", " ", "b", "y", " ", "T", "L", "C", ",", " ", "s", "t", "a", "t", "e", " ", "b", "y", " ", "s", "t", "a", "t", "e", ".">>, <<"h", "t", "t", "p", "s", ":", "/", "/", "w", "w", "w", ".", "y", "o", "u", "t", "u", "b", "e", ".", "c", "o", "m", "/", "w", "a", "t", "c", "h", "?", "v", "=", "1">>),
      LabelledOverview(<<"T", "L", "A", "+", " ", "m", "o", "d", "e", "l", "s", " ", "a", "r", "e", " ", "c", "h", "e", "c", "k", "e", "d", " ", "b", "y", " ", "T", "L", "C", ",", " ", "s", "t", "a", "t", "e", " ", "b", "y", " ", "s", "t", "a", "t", "e", ".">>),
      PanelTitle(<<"T", "L", "A", "+">>),
      PanelTitle(<<"T">>),
      WholePanel(<<"L", "e", "s", "l", "i", "e", " ", "L", "a", "m", "p", "o", "r", "t">>),
      LinkedPanel(<<"L", "e", "s", "l", "i", "e", " ", "L", "a", "m", "p", "o", "r", "t">>, <<"h", "t", "t", "p", "s", ":", "/", "/", "l", "a", "m", "p", "o", "r", "t", ".", "o", "r", "g", "/">>),
      LinkedPanel(<<"L", "e", "s", "l", "i", "e", " ", "L", "a", "m", "p", "o", "r", "t">>, <<"h", "t", "t", "p", ":", "/", "/", "l", "o", "c", "a", "l", "h", "o", "s", "t", "/", "p", "a", "n", "e", "l">>),
      Stats(<<"r", "e", "s", "u", "l", "t", "-", "s", "t", "a", "t", "s">>, <<"A", "b", "o", "u", "t", " ", "1", ",", "2", "3", "0", " ", "r", "e", "s", "u", "l", "t", "s">>),
      Stats(<<"r", "e", "s", "u", "l", "t", "-", "s", "t", "a", "t", "s">>, <<"1", "2", " ", "r", "e", "s", "u", "l", "t", "s">>),
      Stats(<<"r", "e", "s", "u", "l", "t", "S", "t", "a", "t", "s">>, <<"A", "b", "o", "u", "t", " ", "5", ",", "0", "0", "0">>),
      Paragraph(<<"O", "u", "r", " ", "s", "y", "s", "t", "e", "m", "s", " ", "h", "a", "v", "e", " ", "d", "e", "t", "e", "c", "t", "e", "d", " ", "u", "n", "u", "s", "u", "a", "l", " ", "t", "r", "a", "f", "f", "i", "c">>),
      Anchor(<<"/", "h", "t", "t", "p", "s", "e", "r", "v", "i", "c", "e", "/", "r", "e", "t", "r", "y", "/", "e", "n", "a", "b", "l", "e", "j", "s", "?", "s", "e", "i", "=", "1">>, <<"R", "e", "t", "r", "y">>) }

\* the values of data-attrid in the panels: plain, prefixed, with underscores,
\* in either letter case
AttributeIds ==
    { <<"k", "c", ":", "/", "p", "e", "o", "p", "l", "e", "/", "p", "e", "r", "s", "o", "n", ":", "b", "o", "r", "n">>, <<"b", "o", "r", "n", "_", "i", "n">>, <<"t", "i", "t", "l", "e">>, <<"k", "c", ":", "/", "x", "/", "d", "e", "s", "c", "r", "i", "p", "t", "i", "o", "n">>, <<"_", "s", "u", "b", "t", "i", "t", "l", "e", "_">>,
      <<"T", "i", "t", "l", "e">>, <<"K", "C", ":", "/", "x", "/", "S", "u", "b", "t", "i", "t", "l", "e">>, <<>> }

PanelBlocks ==
    {AttributePanel(<<"A", "d", "a", " ", "L", "o", "v", "e", "l", "a", "c", "e">>, id, v) : id \in AttributeIds, v \in {<<"1", "8", "1", "5">>, <<" ">>}}
    \cup {TitledPanel(id, <<"A", "d", "a", " ", "L", "o", "v", "e", "l", "a", "c", "e">>, <<"1", "8", "1", "5">>) : id \in {<<"t", "i", "t", "l", "e">>, <<"T", "i", "t", "l", "e">>}}

\* redirect wrappers and the target each carries
ScenarioLinks ==
    { <<<<"/", "u", "r", "l", "?", "q", "=", "h", "t", "t", "p", "s", ":", "/", "/", "e", "x", "a", "m", "p", "l", "e", ".", "c", "o", "m", "/", "p", "a", "g", "e">>, <<"h", "t", "t", "p", "s", ":", "/", "/", "e", "x", "a", "m", "p", "l", "e", ".", "c", "o", "m", "/", "p", "a", "g", "e">>>>,
      <<<<"/", "u", "r", "l", "?", "q", "=", "h", "t", "t", "p", "s", ":", "/", "/", "e", "x", "a", "m", "p", "l", "e", ".", "c", "o", "m", "/", "p", "a", "g", "e", "&", "s", "a", "=", "U", "&", "v", "e", "d", "=", "2", "a", "h">>, <<"h", "t", "t", "p", "s", ":", "/", "/", "e", "x", "a", "m", "p", "l", "e", ".", "c", "o", "m", "/", "p", "a", "g", "e">>>>,
      <<<<"/", "u", "r", "l", "?", "q", "=", "h", "t", "t", "p", "s", "%", "3", "A", "%", "2", "F", "%", "2", "F", "e", "x", "a", "m", "p", "l", "e", ".", "c", "o", "m", "%", "2", "F", "p", "a", "g", "e", "%", "3", "F", "a", "%", "3", "D", "1">>, <<"h", "t", "t", "p", "s", ":", "/", "/", "e", "x", "a", "m", "p", "l", "e", ".", "c", "o", "m", "/", "p", "a", "g", "e", "?", "a", "=", "1">>>>,
      <<<<"/", "u", "r", "l", "?", "q", "=", "h", "t", "t", "p", "s", ":", "/", "/", "w", "w", "w", ".", "g", "o", "o", "g", "l", "e", ".", "c", "o", "m", "/", "m", "a", "p", "s">>, <<"h", "t", "t", "p", "s", ":", "/", "/", "w", "w", "w", ".", "g", "o", "o", "g", "l", "e", ".", "c", "o", "m", "/", "m", "a", "p", "s">>>>,
      <<<<"/", "u", "r", "l", "?", "q", "=", "/", "s", "e", "a", "r", "c", "h", "%", "3", "F", "q", "%", "3", "D", "s", "h", "o", "e", "s">>, <<"/", "s", "e", "a", "r", "c", "h", "?", "q", "=", "s", "h", "o", "e", "s">>>> }

ScenarioTitles == {<<"E", "x", "a", "m", "p", "l", "e", " ", "T", "i", "t", "l", "e">>, <<"H", "e", "l", "p">>, <<"H", "i">>}

ScenarioSnippets == {<<"A", "n", " ", "e", "x", "a", "m", "p", "l", "e", " ", "s", "n", "i", "p", "p", "e", "t", ".">>, <<"A", " ", "l", "o", "n", "g", "e", "r", " ", "s", "n", "i", "p", "p", "e", "t", " ", "o", "f", " ", "t", "h", "e", " ", "p", "a", "g", "e", ",", " ", "c", "u", "t", " ", "b", "y", " ", "t", "h", "e", " ", "e", "n", "g", "i", "n", "e", " ", ".", ".", ".">>, <<>>}

\* a page that is one <div class="g"> block with a wrapped link and an st span
ScenarioBlocks ==
    {GBlock(l[1], t, s) : l \in ScenarioLinks, t \in ScenarioTitles, s \in ScenarioSnippets}

SerpLayouts ==
    UpToTwo(OrganicFragments) \cup AdLayouts \cup UpToTwo(SponsoredFragments)
    \cup UpToTwo(QuestionFragments) \cup UpToTwo(MapFragments) \cup UpToTwo(RelatedFragments)
    \cup UpToTwo(SingleFragments) \cup {<<b>> : b \in ScenarioBlocks}
    \cup {<<p>> : p \in PanelBlocks}

\* the white space between two fragments
MaxGap == 1

SerpDocs == {EmptyDoc} \cup {SerpDoc(s, g) : s \in SerpLayouts, g \in 0..MaxGap}

\* the href values resolveGoogleUrl is given: direct links, redirect wrappers,
\* relative links, links to the engine's own hosts, other schemes
UrlPool ==
    { <<"h", "t", "t", "p", "s", ":", "/", "/", "e", "x", "a", "m", "p", "l", "e", ".", "c", "o", "m", "/", "p", "a", "g", "e">>,
      <<"h", "t", "t", "p", ":", "/", "/", "s", "h", "o", "p", ".", "e", "x", "a", "m", "p", "l", "e", ".", "o", "r", "g", ":", "8", "0", "8", "0", "/", "a", "?", "b", "=", "c">>,
      <<"H", "T", "T", "P", "S", ":", "/", "/", "E", "X", "A", "M", "P", "L", "E", ".", "C", "O", "M", "/">>,
      <<"h", "t", "t", "p", "s", ":", "/", "/", "w", "w", "w", ".", "g", "o", "o", "g", "l", "e", ".", "c", "o", "m", "/", "m", "a", "p", "s">>,
      <<"h", "t", "t", "p", "s", ":", "/", "/", "m", "a", "p", "s", ".", "g", "o", "o", "g", "l", "e", ".", "c", "o", ".", "u", "k", "/">>,
      <<"h", "t", "t", "p", "s", ":", "/", "/", "f", "o", "n", "t", "s", ".", "g", "s", "t", "a", "t", "i", "c", ".", "c", "o", "m", "/", "s", "/", "x", ".", "w", "o", "f", "f">>,
      <<"h", "t", "t", "p", "s", ":", "/", "/", "w", "w", "w", ".", "y", "o", "u", "t", "u", "b", "e", ".", "c", "o", "m", "/", "w", "a", "t", "c", "h", "?", "v", "=", "1">>,
      <<"h", "t", "t", "p", "s", ":", "/", "/", "a", "d", ".", "d", "o", "u", "b", "l", "e", "c", "l", "i", "c", "k", ".", "n", "e", "t", "/", "d", "d", "m">>,
      <<"h", "t", "t", "p", "s", ":", "/", "/", "n", "o", "t", "g", "o", "o", "g", "l", "e", ".", "c", "o", "m", "/">>,
      <<"h", "t", "t", "p", ":", "/", "/", "l", "o", "c", "a", "l", "h", "o", "s", "t", "/", "a", "d", "m", "i", "n">>,
      <<"h", "t", "t", "p", "s", ":", "/", "/", "e", "x", "a", "m", "p", "l", "e", ".", "c", "o", "m", "/", "h", "t", "t", "p", "s", "e", "r", "v", "i", "c", "e", "/", "r", "e", "t", "r", "y">>,
      <<"h", "t", "t", "p", "s", ":", "/", "/", "e", "x", "a", " ", "m", "p", "l", "e", ".", "c", "o", "m", "/">>,
      <<"h", "t", "t", "p", ":", "/", "/">>,
      <<"h", "t", "t", "p", "x", ":", "/", "/", "e", "x", "a", "m", "p", "l", "e", ".", "c", "o", "m", "/">>,
      <<"h", "t", "t", "p", "-", "e", "q", "u", "i", "v", ":", "r", "e", "f", "r", "e", "s", "h">>,
      <<"h", "t", "t", "p">>,
      <<"f", "t", "p", ":", "/", "/", "e", "x", "a", "m", "p", "l", "e", ".", "c", "o", "m", "/", "f", "i", "l", "e">>,
      <<"/", "/", "e", "x", "a", "m", "p", "l", "e", ".", "c", "o", "m", "/", "p", "a", "g", "e">>,
      <<"/", "s", "e", "a", "r", "c", "h", "?", "q", "=", "s", "h", "o", "e", "s">>,
      <<"#", "t", "o", "p">>,
      <<>>,
      <<"/", "u", "r", "l", "?", "q", "=", "h", "t", "t", "p", "s", ":", "/", "/", "e", "x", "a", "m", "p", "l", "e", ".", "c", "o", "m", "/", "p", "a", "g", "e", "&", "s", "a", "=", "U">>,
      <<"/", "u", "r", "l", "?", "s", "a", "=", "t", "&", "u", "r", "l", "=", "h", "t", "t", "p", "s", "%", "3", "A", "%", "2", "F", "%", "2", "F", "e", "x", "a", "m", "p", "l", "e", ".", "c", "o", "m", "%", "2", "F", "c", "a", "f", "%", "C", "3", "%", "A", "9">>,
      <<"h", "t", "t", "p", "s", ":", "/", "/", "w", "w", "w", ".", "g", "o", "o", "g", "l", "e", ".", "c", "o", "m", "/", "u", "r", "l", "?", "q", "=", "h", "t", "t", "p", "s", ":", "/", "/", "e", "x", "a", "m", "p", "l", "e", ".", "c", "o", "m", "/">>,
      <<"/", "u", "r", "l", "?", "q", "=", "h", "t", "t", "p", "s", ":", "/", "/", "w", "w", "w", ".", "g", "o", "o", "g", "l", "e", ".", "c", "o", "m", "/", "m", "a", "p", "s", "&", "s", "a", "=", "U">>,
      <<"/", "u", "r", "l", "?", "q", "=", "/", "s", "e", "a", "r", "c", "h", "%", "3", "F", "q", "%", "3", "D", "s", "h", "o", "e", "s">>,
      <<"/", "u", "r", "l", "?", "q", "=", "h", "t", "t", "p", "x", ":", "/", "/", "e", "x", "a", "m", "p", "l", "e", ".", "c", "o", "m", "/">>,
      <<"/", "u", "r", "l", "?", "q", "=", "%", "E", "0", "%", "A", "4", "%", "A", "&", "s", "a", "=", "U">>,
      <<"/", "u", "r", "l", "?", "s", "a", "=", "U">>,
      <<"h", "t", "t", "p", "s", ":", "/", "/", "e", "x", "a", "m", "p", "l", "e", ".", "c", "o", "m", "/", "u", "r", "l", "?", "x", "=", "1">> }

\* the argument of a call of resolveGoogleUrl
UrlArg(url) == [url |-> url]

IsUrlArg(a) == "url" \in DOMAIN a

\* the statuses proxyFetch answers with
Statuses == {200, 429}

\* ------------------------------------------------------------------------
\* The extractors of the search pipeline, and the business extraction next to
\* them, applied to one document
\* ------------------------------------------------------------------------

\* the document is markup, item by item
IsMarkup(html) == "toks" \in DOMAIN html /\ \A i \in 1..Len(html.toks) : html.toks[i].k \in {"open", "close", "text", "space"}

\* the document is laid out for the business pipeline
IsBusinessPage(html) == "toks" \in DOMAIN html /\ \A i \in 1..Len(html.toks) : html.toks[i].k \notin {"open", "close", "text", "space"}

InitSerp ==
    /\ fn = "none" /\ ret = "none" /\ call = null
    /\ arg \in SerpDocs \/ arg \in MapsDocs \/ arg \in {UrlArg(u) : u \in UrlPool}

ApplyExtractOrganicResults ==
    /\ fn = "none"
    /\ IsMarkup(arg)
    /\ fn' = "extractOrganicResults"
    /\ ret' = extractOrganicResults(arg)
    /\ UNCHANGED <<arg, call>>

ApplyExtractAds ==
    /\ fn = "none"
    /\ IsMarkup(arg)
    /\ fn' = "extractAds"
    /\ ret' = extractAds(arg)
    /\ UNCHANGED <<arg, call>>

ApplyExtractPeopleAlsoAsk ==
    /\ fn = "none"
    /\ IsMarkup(arg)
    /\ fn' = "extractPeopleAlsoAsk"
    /\ ret' = extractPeopleAlsoAsk(arg)
    /\ UNCHANGED <<arg, call>>

ApplyExtractFeaturedSnippet ==
    /\ fn = "none"
    /\ IsMarkup(arg)
    /\ fn' = "extractFeaturedSnippet"
    /\ ret' = extractFeaturedSnippet(arg)
    /\ UNCHANGED <<arg, call>>

ApplyExtractAiOverview ==
    /\ fn = "none"
    /\ IsMarkup(arg)
    /\ fn' = "extractAiOverview"
    /\ ret' = extractAiOverview(arg)
    /\ UNCHANGED <<arg, call>>

ApplyExtractMapPack ==
    /\ fn = "none"
    /\ IsMarkup(arg)
    /\ fn' = "extractMapPack"
    /\ ret' = extractMapPack(arg)
    /\ UNCHANGED <<arg, call>>

ApplyExtractKnowledgePanel ==
    /\ fn = "none"
    /\ IsMarkup(arg)
    /\ fn' = "extractKnowledgePanel"
    /\ ret' = extractKnowledgePanel(arg)
    /\ UNCHANGED <<arg, call>>

ApplyExtractRelatedSearches ==
    /\ fn = "none"
    /\ IsMarkup(arg)
    /\ fn' = "extractRelatedSearches"
    /\ ret' = extractRelatedSearches(arg)
    /\ UNCHANGED <<arg, call>>

ApplyExtractTotalResults ==
    /\ fn = "none"
    /\ IsMarkup(arg)
    /\ fn' = "extractTotalResults"
    /\ ret' = extractTotalResults(arg)
    /\ UNCHANGED <<arg, call>>

\* the fetch of scrapeMobileSERP is rejected, or answers with a status and the document
ApplyScrapeMobileSERP ==
    /\ fn = "none"
    /\ IsMarkup(arg)
    /\ \E response \in {Rejected} \cup {Response(status, arg) : status \in Statuses} :
        /\ fn' = "scrapeMobileSERP"
        /\ arg' = response
        /\ ret' = scrapeMobileSERP(response)
    /\ UNCHANGED call

ApplyResolveGoogleUrl ==
    /\ fn = "none"
    /\ IsUrlArg(arg)
    /\ fn' = "resolveGoogleUrl"
    /\ ret' = resolveGoogleUrl(arg.url)
    /\ UNCHANGED <<arg, call>>

ApplyBusinessExtraction == fn = "none" /\ IsBusinessPage(arg) /\ ApplyExtractBusinessesFromHtml

NextSerp ==
    \/ ApplyExtractOrganicResults
    \/ ApplyExtractAds
    \/ ApplyExtractPeopleAlsoAsk
    \/ ApplyExtractFeaturedSnippet
    \/ ApplyExtractAiOverview
    \/ ApplyExtractMapPack
    \/ ApplyExtractKnowledgePanel
    \/ ApplyExtractRelatedSearches
    \/ ApplyExtractTotalResults
    \/ ApplyScrapeMobileSERP
    \/ ApplyBusinessExtraction
    \/ ApplyResolveGoogleUrl

SpecSerp == InitSerp /\ [][NextSerp]_vars

\* the entries of a list are pairwise different under key
UniqueBy(list, key(_)) == \A i, j \in 1..Len(list) : key(list[i]) = key(list[j]) => i = j

UrlOf(entry) == entry.url

FoldedQuestion(entry) == toLowerCase(entry.question)

FoldedName(entry) == toLowerCase(entry.name)

\* C3: in the list one call of a search-feature extractor returns the dedup key
\* is unique: extractOrganicResults and extractAds return no two entries with
\* the same resolved url; extractPeopleAlsoAsk, extractMapPack and
\* extractRelatedSearches return no two entries whose question, name or query
\* are equal after case-folding.
C3_UniqueDedupKey ==
    /\ fn \in {"extractOrganicResults", "extractAds"} /\ ret # Threw => UniqueBy(ret.value, UrlOf)
    /\ fn = "extractPeopleAlsoAsk" => UniqueBy(ret, FoldedQuestion)
    /\ fn = "extractMapPack" => UniqueBy(ret, FoldedName)
    /\ fn = "extractRelatedSearches" => UniqueBy(ret, toLowerCase)

\* the questions the data-q attributes of a page hold, in page order
RECURSIVE AskedQuestions(_, _)
AskedQuestions(toks, i) ==
    IF i > Len(toks) THEN <<>>
    ELSE (IF DataQ(toks[i]) THEN <<AttrVal(toks[i], "data-q")>> ELSE <<>>) \o AskedQuestions(toks, i + 1)

\* a page asked one question twice, in two spellings that differ in letter case
\* only, and extractPeopleAlsoAsk returned it once, in the first spelling
C3_Witness ==
    /\ fn = "extractPeopleAlsoAsk"
    /\ Len(AskedQuestions(arg.toks, 1)) = 2
    /\ AskedQuestions(arg.toks, 1)[1] # AskedQuestions(arg.toks, 1)[2]
    /\ toLowerCase(AskedQuestions(arg.toks, 1)[1]) = toLowerCase(AskedQuestions(arg.toks, 1)[2])
    /\ Len(ret) = 1
    /\ ret[1].question = AskedQuestions(arg.toks, 1)[1]

\* the answer of scrapeMobileSERP with nothing extracted
EmptyResponse == SerpResponse(null, <<>>, <<>>, <<>>, null, null, <<>>, null, <<>>)

Failed(got) == got = Threw \/ (got.kind = "response" /\ ~got.ok)

\* some returned business has the case-folded name of record
ReturnedByName(record) ==
    \E m \in 1..Len(call.result.businesses) :
        toLowerCase(call.result.businesses[m].name) = toLowerCase(record.name)

\* the document holds a JSON-LD script on which JSON.parse or processItem throws
HasThrowingScript(html) ==
    \E t \in 1..Len(html.toks) :
        html.toks[t].k = "ld" /\ (~html.toks[t].json.ok \/ processItemThrows(html.toks[t].json))

\* C11: a strategy that throws or matches nothing yields zero records and never
\* aborts the chain. When scrapeGoogleMaps returns, all three strategies have been
\* reached, none was left out for another reason than the limit being held, a
\* failed strategy left the held businesses as they were, and every record a
\* strategy that did not fail yielded is returned under its name unless the limit
\* cut the list; inside extractBusinessesFromHtml every candidate of a strategy
\* that did not throw is in what the function yields, whatever script threw.
C11_FailedStrategyYieldsNothing ==
    Done =>
        /\ Len(call.fetched) = 3
        /\ \A i \in 1..3 : call.fetched[i].got = Skipped => call.fetched[i].held >= call.limit
        /\ \A i \in 1..2 : Failed(call.fetched[i].got) => call.fetched[i + 1].held = call.fetched[i].held
        /\ Failed(call.fetched[3].got) => call.result.totalFound = call.fetched[3].held
        /\ \A i \in 1..3 : \A n \in 1..Len(Yield(i)) :
                Len(call.result.businesses) >= call.limit \/ ReturnedByName(Yield(i)[n])
        /\ \A i \in 1..3 : call.fetched[i].strategy = "maps" /\ IsOk(call.fetched[i].got) =>
                \A n \in 1..Len(Candidates("maps", call.fetched[i].got.html)) :
                    \E m \in 1..Len(Yield(i)) :
                        toLowerCase(Yield(i)[m].name)
                            = toLowerCase(Candidates("maps", call.fetched[i].got.html)[n].name)

\* the local search threw, the Maps page held a script that throws next to a
\* class-based headline, the web search answered a non-OK status, and the
\* headline's business was returned
C11_Witness ==
    /\ Done
    /\ call.fetched[1].got = Threw
    /\ IsOk(call.fetched[2].got) /\ HasThrowingScript(call.fetched[2].got.html)
    /\ call.fetched[3].got = NotOk
    /\ Len(call.result.businesses) = 1
    /\ call.result.businesses[1].name = AlsDeli

\* C12: a parse failure on one field of one candidate is always swallowed. When
\* the URL or redirect target of one candidate cannot be decoded,
\* extractOrganicResults and extractAds do not raise: they return a list (in which
\* the other candidates of the document stand).
C12_DecodeFailureSwallowed ==
    fn \in {"extractOrganicResults", "extractAds"} => ret.kind = "return"

\* ------------------------------------------------------------------------
\* External URLs
\* ------------------------------------------------------------------------

\* the URL is absolute with the scheme http or https and names a host
AbsoluteHttp(url) == HasScheme(url) /\ SpecialScheme(url) /\ UrlParses(url) /\ hostname(url) # <<>>

\* the host is a denylisted domain or lies under one
OnDenylist(host) ==
    \E d \in BlockedDomains \cup {<<"l", "o", "c", "a", "l", "h", "o", "s", "t">>} : host = d \/ endsWith(host, <<".">> \o d)

\* the link is a redirect wrapper: the target it carries, as decodeURIComponent gives it
WrappedTarget(url) ==
    decodeURIComponent(QueryParamValue(url, MinOr({p \in 1..Len(url) : QueryParamAt(url, p)}, 0)))

\* C13: resolveGoogleUrl returns a URL only if that URL is absolute, uses the
\* http or https scheme and has a hostname that is not on the denylist; for a
\* redirect wrapper the URL it returns is the decoded target, otherwise the link
\* itself; in every other case it returns absent (it never raises).
C13_ReturnsOnlyExternalHttp ==
    fn = "resolveGoogleUrl" =>
        /\ ret # Threw
        /\ ret # Threw /\ ret # null =>
            /\ AbsoluteHttp(ret.text)
            /\ ~OnDenylist(hostname(ret.text))
            /\ ret.text = IF includes(arg.url, <<"/", "u", "r", "l", "?">>) THEN WrappedTarget(arg.url).text ELSE arg.url

\* every entry of list has an external URL
AllExternal(list) == \A i \in 1..Len(list) : isRealExternalUrl(list[i].url)

\* C14: non-external URLs are never surfaced in an output record. Every url of
\* every emitted record (organic result, sitelink, ad, people-also-ask source,
\* featured snippet, AI-overview source, knowledge panel) is absent or empty, or
\* a URL the classifier isRealExternalUrl accepts; a candidate with a
\* non-external URL is not in the list of results.
C14_OnlyExternalUrls ==
    /\ fn \in {"extractOrganicResults", "extractAds"} /\ ret # Threw => AllExternal(ret.value)
    /\ fn = "extractOrganicResults" /\ ret # Threw =>
            \A i \in 1..Len(ret.value) : AllExternal(ret.value[i].sitelinks)
    /\ fn = "extractPeopleAlsoAsk" =>
            \A i \in 1..Len(ret) : ret[i].url = null \/ isRealExternalUrl(ret[i].url.text)
    /\ fn = "extractFeaturedSnippet" /\ ret # null => ret.url = <<>> \/ isRealExternalUrl(ret.url)
    /\ fn = "extractAiOverview" /\ ret # null => AllExternal(ret.sources)
    /\ fn = "extractKnowledgePanel" /\ ret # null => ret.url = null \/ isRealExternalUrl(ret.url.text)

\* the links of the page that carry the ad marker data-rw
MarkedLinks(html) ==
    {i \in 1..Len(html.toks) : IsOpen(html.toks[i], "a") /\ HasAttr(html.toks[i], "data-rw")}

\* C15: in every list extractOrganicResults and extractAds return, the entry at
\* 0-based index i has position i + 1 (1-based, contiguous, no gap, no repeat),
\* also after the final filter of extractAds, and the ads of the top section
\* stand before those of the bottom section.
C15_PositionsContiguous ==
    fn \in {"extractOrganicResults", "extractAds"} /\ ret # Threw =>
        /\ \A i \in 1..Len(ret.value) : ret.value[i].position = i
        /\ fn = "extractAds" =>
                \A i, j \in 1..Len(ret.value) : i < j /\ ret.value[j].isTop => ret.value[i].isTop

\* a page with three marked ad links, one of them dropped: a top ad at position 1
\* and a bottom ad at position 2 are returned
C15_Witness ==
    /\ fn = "extractAds" /\ ret # Threw
    /\ Cardinality(MarkedLinks(arg)) = 3
    /\ Len(ret.value) = 2
    /\ ret.value[1].isTop /\ ~ret.value[2].isTop
    /\ ret.value[2].position = 2

\* the title passes the title test of addResult
OrdinaryTitle(title) == Len(title) >= 3 /\ toLowerCase(title) \notin NavTitles

MaxPairLimit == 2

\* what proxyFetch can answer an invocation of the pair: the documents name
\* the same businesses, so that a shared dedup set would drop records
PairResponses(strategy) ==
    {Threw}
    \cup {Ok(d) : d \in
            CASE strategy = "local" ->
                   { Doc(<<Card(Cid123, JoesPizza, Doc(<<Rating("paren", Rating45)>>, 1))>>, NearGap),
                     Doc(<<Card(Cid456, AlsDeli, EmptyDoc)>>, NearGap) }
              [] strategy = "maps" ->
                   { Doc(<<Js(Lat40, LngM74, JoesPizza), Cls(AlsDeli)>>, NearGap),
                     Doc(<<Cls(TacoHut)>>, NearGap) }
              [] strategy = "search" ->
                   { Doc(<<Vkp(TacoHut, EmptyDoc), Kg(JoesPizza)>>, NearGap),
                     Doc(<<Kg(JOESPIZZA)>>, NearGap) }}

\* one array and one set declared at module level, used by every invocation
SharedLocals(calls, i) ==
    [calls[i] EXCEPT !.seenNames = calls[1].seenNames \cup calls[2].seenNames]

\* businesses and seenNames are declared inside scrapeGoogleMaps: invocation i
\* works on the array and the set of its own activation
OwnLocals(calls, i) == calls[i]

InitPair ==
    /\ fn = "none" /\ arg = "none" /\ ret = "none"
    /\ call \in {<<NewCall(l1, 0), NewCall(l2, 0)>> : l1, l2 \in 1..MaxPairLimit}

\* invocation i resumes after its await of the Strategy 1 fetch
PairLocalSearch ==
    /\ \E i \in 1..2 :
         /\ call[i].pc = "local"
         /\ \E resp \in PairResponses("local") :
              call' = [call EXCEPT ![i] = RunStrategy(OwnLocals(call, i), resp)]
    /\ UNCHANGED pureVars

PairGoogleMaps ==
    /\ \E i \in 1..2 :
         /\ call[i].pc = "maps"
         /\ \/ /\ ShouldRun(OwnLocals(call, i))
               /\ \E resp \in PairResponses("maps") :
                    call' = [call EXCEPT ![i] = RunStrategy(OwnLocals(call, i), resp)]
            \/ /\ ~ShouldRun(OwnLocals(call, i))
               /\ call' = [call EXCEPT ![i] = SkipStrategy(OwnLocals(call, i))]
    /\ UNCHANGED pureVars

PairGoogleSearch ==
    /\ \E i \in 1..2 :
         /\ call[i].pc = "search"
         /\ \/ /\ ShouldRun(OwnLocals(call, i))
               /\ \E resp \in PairResponses("search") :
                    call' = [call EXCEPT ![i] = RunStrategy(OwnLocals(call, i), resp)]
            \/ /\ ~ShouldRun(OwnLocals(call, i))
               /\ call' = [call EXCEPT ![i] = SkipStrategy(OwnLocals(call, i))]
    /\ UNCHANGED pureVars

PairReturn ==
    /\ \E i \in 1..2 :
         /\ call[i].pc = "return"
         /\ call' = [call EXCEPT ![i] = ReturnResult(OwnLocals(call, i))]
    /\ UNCHANGED pureVars

NextPair == PairLocalSearch \/ PairGoogleMaps \/ PairGoogleSearch \/ PairReturn

SpecPair == InitPair /\ [][NextPair]_vars

\* the invocation run alone on the answers in log: Strategy 1 always, the later
\* ones while fewer than limit businesses are held, then the return
RECURSIVE RunAlone(_, _, _)
RunAlone(c, log, k) ==
    IF c.pc = "return" THEN ReturnResult(c).result
    ELSE IF c.pc # "local" /\ ~ShouldRun(c) THEN RunAlone(SkipStrategy(c), log, k + 1)
    ELSE IF k > Len(log) \/ log[k].got = Skipped THEN null
    ELSE RunAlone(RunStrategy(c, log[k].got), log, k + 1)

\* C17: two invocations of scrapeGoogleMaps whose awaits interleave in any
\* order each return exactly what they return when run alone on the answers
\* they fetched.
C17_InvocationsIndependent ==
    \A i \in 1..2 :
        call[i].pc = "done" =>
            call[i].result = RunAlone(NewCall(call[i].limit, call[i].startIndex), call[i].fetched, 1)

\* both invocations have returned, they fetched the same documents, and both
\* return the businesses of those documents
C17_Witness ==
    /\ call[1].pc = "done" /\ call[2].pc = "done"
    /\ IsOk(call[1].fetched[1].got)
    /\ call[2].fetched = call[1].fetched
    /\ call[1].result.businesses # <<>>
    /\ call[2].result = call[1].result

\* ------------------------------------------------------------------------
\* The handlers of /api/run, /api/details and /api/serp (part_001)
\* A request in progress is the record
\* [route, walletAddress, header, params, pc, payment, verification, input,
\*  upstream, answer, status, body, page, prev]: walletAddress says whether
\* process.env.WALLET_ADDRESS is set, header is what extractPayment will find,
\* upstream lists the scrapes and fetches the handler started, answer is what
\* the upstream fetch was answered.
\* ------------------------------------------------------------------------

undefined == [undefined |-> TRUE]

\* a query parameter that is present and not the empty string
Truthy(p) == p # undefined /\ p.text # <<>>

IsNaN(x) == "nan" \in DOMAIN x

\* the end of the white space that starts at i
RECURSIVE SkipWhite(_, _)
SkipWhite(s, i) == IF i <= Len(s) /\ s[i] \in WhiteSet THEN SkipWhite(s, i + 1) ELSE i

\* the last digit of the run of digits that starts at j, j - 1 when there is none
RECURSIVE DigitRun(_, _)
DigitRun(s, j) == IF j <= Len(s) /\ s[j] \in DigitSet THEN DigitRun(s, j + 1) ELSE j - 1

ParseDigits(s, j, sign) ==
    IF DigitRun(s, j) < j THEN NaN ELSE Num(sign * DigitsVal(SubSeq(s, j, DigitRun(s, j))))

ParseSigned(s, i) ==
    IF i <= Len(s) /\ s[i] = "-" THEN ParseDigits(s, i + 1, 0 - 1)
    ELSE IF i <= Len(s) /\ s[i] = "+" THEN ParseDigits(s, i + 1, 1)
    ELSE ParseDigits(s, i, 1)

\* parseInt(s) of a string without a 0x prefix: white space, a sign, the leading digits
parseInt(s) == ParseSigned(s, SkipWhite(s, 1))

\* limit as /run reads it: absent or empty 20, not a number or below 1 rejected, capped at 100
DefaultLimit == 20

LimitCap == 100

RunLimit(limitParam) ==
    IF ~Truthy(limitParam) THEN Num(DefaultLimit)
    ELSE IF IsNaN(parseInt(limitParam.text)) \/ parseInt(limitParam.text).num < 1 THEN NaN
    ELSE Num(Min(parseInt(limitParam.text).num, LimitCap))

\* the offset read from a token without the fallback: NaN stays NaN
StartIndexUnguarded(pageToken) ==
    IF Truthy(pageToken) THEN parseInt(pageToken.text) ELSE Num(0)

\* const startIndex = pageToken ? parseInt(pageToken) || 0 : 0
StartIndex(pageToken) ==
    IF Truthy(pageToken) /\ ~IsNaN(parseInt(pageToken.text)) THEN parseInt(pageToken.text) ELSE Num(0)

\* /^[a-zA-Z]{2}$/.test(code)
IsTwoLetterCode(code) == Len(code) = 2 /\ \A i \in 1..2 : code[i] \in UpperSet \cup LowerSet

\* c.req.query(name) || fallback
OrDefault(p, fallback) == IF Truthy(p) THEN p.text ELSE fallback

\* start as /serp reads it: absent or empty 0, not a number or negative rejected
SerpStart(startParam) ==
    IF ~Truthy(startParam) THEN Num(0)
    ELSE IF IsNaN(parseInt(startParam.text)) \/ parseInt(startParam.text).num < 0 THEN NaN
    ELSE parseInt(startParam.text)

\* scrapeGoogleMaps run to its return on the answers its three fetches get
RECURSIVE Chain(_, _)
Chain(c, answers) ==
    IF c.pc = "return" THEN ReturnResult(c).result
    ELSE IF c.pc = "local" \/ ShouldRun(c) THEN Chain(RunStrategy(c, answers[c.pc]), answers)
    ELSE Chain(SkipStrategy(c), answers)

scrapeGoogleMaps(limit, startIndex, answers) == Chain(NewCall(limit, startIndex), answers)

\* the response headers a handler sets with c.header
NoHeaders == [settled |-> null, txHash |-> null]

NewRequest(route, walletAddress, header, params, page, prev) ==
    [route |-> route, walletAddress |-> walletAddress, header |-> header, params |-> params,
     pc |-> "received", payment |-> null, verification |-> null, input |-> null,
     upstream |-> <<>>, answer |-> null, status |-> 0, body |-> null, page |-> page, prev |-> prev,
     headers |-> NoHeaders]

\* return c.json(body, status)
Respond(c, status, body) == [c EXCEPT !.pc = "done", !.status = status, !.body = body]

\* the handler goes on without looking at the verification
\* the handler past its await of verifyPayment, or answering 402
VerifiedUnchecked(c, verification, next) == [next EXCEPT !.verification = verification]

Verified(c, verification, next) ==
    IF verification.valid THEN [next EXCEPT !.verification = verification]
    ELSE Respond([c EXCEPT !.verification = verification], 402, [error |-> "Payment verification failed"])

\* the try block up to its first await: getProxy(), then the scrape or the fetch is started
Started(c, input, proxy, what) ==
    IF proxy THEN [c EXCEPT !.pc = "scraping", !.input = input, !.upstream = Append(c.upstream, what)]
    ELSE Respond([c EXCEPT !.input = input], 502, [error |-> "execution failed"])

RunValidated(c, proxy) ==
    IF ~Truthy(c.params.query) \/ ~Truthy(c.params.location)
    THEN Respond(c, 400, [error |-> "Missing required parameter"])
    ELSE IF IsNaN(RunLimit(c.params.limit))
    THEN Respond(c, 400, [error |-> "Invalid limit parameter"])
    ELSE Started(c, [limit |-> RunLimit(c.params.limit).num,
                     startIndex |-> StartIndex(c.params.pageToken).num],
                 proxy, "scrapeGoogleMaps")

DetailsValidated(c, proxy) ==
    IF ~Truthy(c.params.placeId) THEN Respond(c, 400, [error |-> "Missing required parameter"])
    ELSE Started(c, [placeId |-> c.params.placeId.text], proxy, "proxyFetch")

SerpValidated(c, proxy) ==
    IF ~Truthy(c.params.query) THEN Respond(c, 400, [error |-> "Missing required parameter"])
    ELSE IF ~IsTwoLetterCode(OrDefault(c.params.country, <<"u", "s">>))
    THEN Respond(c, 400, [error |-> "Invalid country code"])
    ELSE IF ~IsTwoLetterCode(OrDefault(c.params.language, <<"e", "n">>))
    THEN Respond(c, 400, [error |-> "Invalid language code"])
    ELSE IF IsNaN(SerpStart(c.params.start))
    THEN Respond(c, 400, [error |-> "Invalid start parameter"])
    ELSE Started(c, [country |-> toLowerCase(OrDefault(c.params.country, <<"u", "s">>)),
                     language |-> toLowerCase(OrDefault(c.params.language, <<"e", "n">>)),
                     start |-> SerpStart(c.params.start).num],
                 proxy, "scrapeMobileSERP")

\* c.header('X-Payment-Settled', 'true'); c.header('X-Payment-TxHash', payment.txHash)
PaymentHeaders(c) == [c EXCEPT !.headers = [settled |-> Text(<<"t", "r", "u", "e">>), txHash |-> c.payment]]

\* the headers are set and the answer then fails into the catch block
SettledThenFailed(c, result) ==
    Respond(PaymentHeaders(c), 502, [error |-> "execution failed"])

\* the 200 answer: the payment headers, then the result and the payment block
Settled(c, result) ==
    Respond(PaymentHeaders(c), 200,
            [result |-> result, payment |-> [txHash |-> c.payment, settled |-> TRUE]])

\* -- the pools

LimitParams == {undefined, Text(<<"1">>), Text(<<"2">>), Text(<<"0">>), Text(<<"m", "a", "n", "y">>), Text(<<"2", "5", "0">>)}

TokenParams ==
    {undefined, Text(<<>>), Text(<<"a", "b", "c">>), Text(<<"0">>), Text(<<"2">>), Text(<<"-", "3">>), Text(<<"7", "t", "h">>), Text(<<" ", "4">>)}

RunParams ==
    {[query |-> q, location |-> l, limit |-> n, pageToken |-> t] :
        q \in {undefined, Text(<<"p", "i", "z", "z", "a">>)}, l \in {undefined, Text(<<"N", "Y", "C">>)},
        n \in LimitParams, t \in TokenParams}

DetailsParams == {[placeId |-> p] : p \in {undefined, Text(<<>>), Text(Cid123)}}

SerpParams ==
    {[query |-> q, country |-> c, language |-> l, start |-> s] :
        q \in {undefined, Text(<<"t", "l", "a">>)}, c \in {undefined, Text(<<"G", "B">>), Text(<<"u", "s", "a">>)},
        l \in {undefined, Text(<<"e", "1">>)}, s \in {undefined, Text(<<"1", "0">>), Text(<<"-", "1">>), Text(<<"t", "e", "n">>)}}

\* what the three fetches of scrapeGoogleMaps are answered
RunAnswers ==
    {[local |-> a, maps |-> b, search |-> c] :
        a \in PairResponses("local"), b \in PairResponses("maps"), c \in PairResponses("search")}

\* what the fetch of /details is answered
DetailsAnswers ==
    {Threw, NotOk, Ok(EmptyDoc), Ok(Doc(<<Title(JoesPizza), Rating("stars", Rating45)>>, NearGap))}

\* pages on which no extractor finds anything
NoMatchPages ==
    { EmptyDoc,
      SerpDoc(<<Paragraph(<<"Y", "o", "u", "r", " ", "s", "e", "a", "r", "c", "h", " ", "d", "i", "d", " ", "n", "o", "t", " ", "m", "a", "t", "c", "h", " ", "a", "n", "y", " ", "d", "o", "c", "u", "m", "e", "n", "t", "s", ".">>)>>, 0),
      SerpDoc(<<Anchor(<<"h", "t", "t", "p", "s", ":", "/", "/", "w", "w", "w", ".", "g", "o", "o", "g", "l", "e", ".", "c", "o", "m", "/", "p", "r", "e", "f", "e", "r", "e", "n", "c", "e", "s">>, <<"S", "e", "t", "t", "i", "n", "g", "s">>)>>, 1) }

\* pages that hold one of the markers scrapeMobileSERP tests for
ChallengePages ==
    { SerpDoc(<<Paragraph(<<"O", "u", "r", " ", "s", "y", "s", "t", "e", "m", "s", " ", "h", "a", "v", "e", " ", "d", "e", "t", "e", "c", "t", "e", "d", " ", "u", "n", "u", "s", "u", "a", "l", " ", "t", "r", "a", "f", "f", "i", "c">>)>>, 0),
      SerpDoc(<<Paragraph(<<"P", "l", "e", "a", "s", "e", " ", "s", "o", "l", "v", "e", " ", "t", "h", "e", " ", "c", "a", "p", "t", "c", "h", "a">>)>>, 0),
      SerpDoc(<<Anchor(<<"/", "h", "t", "t", "p", "s", "e", "r", "v", "i", "c", "e", "/", "r", "e", "t", "r", "y", "/", "e", "n", "a", "b", "l", "e", "j", "s", "?", "s", "e", "i", "=", "1">>, <<"R", "e", "t", "r", "y">>)>>, 0),
      SerpDoc(<<GBlock(<<"/", "u", "r", "l", "?", "q", "=", "h", "t", "t", "p", "s", ":", "/", "/", "e", "x", "a", "m", "p", "l", "e", ".", "c", "o", "m", "/", "p", "a", "g", "e">>, <<"E", "x", "a", "m", "p", "l", "e", " ", "T", "i", "t", "l", "e">>, <<"A", "n", " ", "e", "x", "a", "m", "p", "l", "e", " ", "s", "n", "i", "p", "p", "e", "t", ".">>),
                Paragraph(<<"O", "u", "r", " ", "s", "y", "s", "t", "e", "m", "s", " ", "h", "a", "v", "e", " ", "d", "e", "t", "e", "c", "t", "e", "d", " ", "u", "n", "u", "s", "u", "a", "l", " ", "t", "r", "a", "f", "f", "i", "c">>)>>, 1),
      SerpDoc(<<Paragraph(<<"k", "n", "i", "t", "s", "a", "i", "l">>)>>, 0) }

ResultPages ==
    { SerpDoc(<<GBlock(<<"/", "u", "r", "l", "?", "q", "=", "h", "t", "t", "p", "s", ":", "/", "/", "e", "x", "a", "m", "p", "l", "e", ".", "c", "o", "m", "/", "p", "a", "g", "e">>, <<"E", "x", "a", "m", "p", "l", "e", " ", "T", "i", "t", "l", "e">>, <<"A", "n", " ", "e", "x", "a", "m", "p", "l", "e", " ", "s", "n", "i", "p", "p", "e", "t", ".">>)>>, 0),
      SerpDoc(<<Sponsored(<<"/", "a", "c", "l", "k", "?", "a", "d", "u", "r", "l", "=", "%", "E", "0", "%", "A", "4", "%", "A">>, <<"S", "h", "o", "p", " ", "n", "o", "w">>)>>, 0),
      SerpDoc(<<Paragraph(<<"H", "o", "w", " ", "t", "o", " ", "b", "e", "a", "t", " ", "a", " ", "C", "A", "P", "T", "C", "H", "A">>)>>, 0) }

SerpAnswers ==
    {Rejected} \cup {Response(status, page) : status \in Statuses,
                                              page \in NoMatchPages \cup ChallengePages \cup ResultPages}

\* the requests a client sends one after the other with the tokens it is given
MaxPages == 2

InitApi ==
    /\ fn = "none" /\ arg = "none" /\ ret = "none"
    /\ call \in {NewRequest("run", w, h, p, 1, null) :
                    w \in BOOLEAN, h \in {null, Text(<<"0", "x", "a", "b", "c">>)}, p \in RunParams}
           \cup {NewRequest("details", w, h, p, 1, null) :
                    w \in BOOLEAN, h \in {null, Text(<<"0", "x", "a", "b", "c">>)}, p \in DetailsParams}
           \cup {NewRequest("serp", w, h, p, 1, null) :
                    w \in BOOLEAN, h \in {null, Text(<<"0", "x", "a", "b", "c">>)}, p \in SerpParams}

\* the head of each handler: the wallet check, then extractPayment
CheckPayment ==
    /\ call.pc = "received"
    /\ call' = IF ~call.walletAddress THEN Respond(call, 500, [error |-> "Service misconfigured"])
               ELSE IF call.header = null THEN Respond(call, 402, [error |-> "Payment required"])
               ELSE [call EXCEPT !.pc = "verifying", !.payment = call.header]
    /\ UNCHANGED pureVars

\* /run resumes after await verifyPayment(...)
RunVerified ==
    /\ call.pc = "verifying" /\ call.route = "run"
    /\ \E valid \in BOOLEAN, proxy \in BOOLEAN :
         call' = Verified(call, [valid |-> valid], RunValidated(call, proxy))
    /\ UNCHANGED pureVars

DetailsVerified ==
    /\ call.pc = "verifying" /\ call.route = "details"
    /\ \E valid \in BOOLEAN, proxy \in BOOLEAN :
         call' = Verified(call, [valid |-> valid], DetailsValidated(call, proxy))
    /\ UNCHANGED pureVars

SerpVerified ==
    /\ call.pc = "verifying" /\ call.route = "serp"
    /\ \E valid \in BOOLEAN, proxy \in BOOLEAN :
         call' = Verified(call, [valid |-> valid], SerpValidated(call, proxy))
    /\ UNCHANGED pureVars

\* /run resumes after await scrapeGoogleMaps(...), which catches every failure of a fetch
RunScraped ==
    /\ call.pc = "scraping" /\ call.route = "run"
    /\ \E answers \in RunAnswers :
         call' = Settled([call EXCEPT !.answer = answers],
                         scrapeGoogleMaps(call.input.limit, call.input.startIndex, answers))
    /\ UNCHANGED pureVars

\* /details resumes after the fetch of the place page
DetailsFetched ==
    /\ call.pc = "scraping" /\ call.route = "details"
    /\ \E resp \in DetailsAnswers :
         call' = IF resp = Threw \/ ~resp.ok
                 THEN Respond([call EXCEPT !.answer = resp], 502,
                              [error |-> "Failed to fetch business details"])
                 ELSE Settled([call EXCEPT !.answer = resp], [business |-> extractDetailedBusiness(resp.html, call.input.placeId)])
    /\ UNCHANGED pureVars

\* /serp resumes after await scrapeMobileSERP(...)
SerpScraped ==
    /\ call.pc = "scraping" /\ call.route = "serp"
    /\ \E response \in SerpAnswers :
         call' = IF scrapeMobileSERP(response).kind = "throw"
                 THEN Respond([call EXCEPT !.answer = response], 502,
                              [error |-> "SERP scraping failed"])
                 ELSE Settled([call EXCEPT !.answer = response],
                              scrapeMobileSERP(response).value)
    /\ UNCHANGED pureVars

\* the client asks /run for the next page with the token of the answer
FollowToken ==
    /\ call.pc = "done" /\ call.route = "run" /\ call.status = 200
    /\ call.body.result.nextPageToken # null
    /\ call.page < MaxPages
    /\ call' = NewRequest("run", call.walletAddress, call.header,
                          [call.params EXCEPT !.pageToken = call.body.result.nextPageToken],
                          call.page + 1, call.input)
    /\ UNCHANGED pureVars

NextApi ==
    \/ CheckPayment
    \/ RunVerified \/ DetailsVerified \/ SerpVerified
    \/ RunScraped \/ DetailsFetched \/ SerpScraped
    \/ FollowToken

SpecApi == InitApi /\ [][NextApi]_vars

\* tokens that are missing or hold no number
NoNumberTokens == {undefined, Text(<<>>), Text(<<"a", "b", "c">>)}

Answered(c) == c.answer # null /\ c.answer # Rejected

\* C19: /api/serp answers a challenge page with the error status 502 and never
\* with 200, and answers a page with no matches with 200 and empty result
\* lists.
C19_ChallengeIsNotEmpty ==
    call.route = "serp" /\ call.pc = "done" /\ Answered(call) =>
        /\ call.answer.html \in ChallengePages => call.status = 502
        /\ call.answer.ok /\ call.answer.html \in NoMatchPages =>
              call.status = 200 /\ call.body.result = EmptyResponse

\* a challenge page that also holds a well-formed result block was fetched
\* with status 200 and answered with 502
C19_Witness ==
    /\ call.route = "serp" /\ call.pc = "done"
    /\ call.answer = Response(200,
          SerpDoc(<<GBlock(<<"/", "u", "r", "l", "?", "q", "=", "h", "t", "t", "p", "s", ":", "/", "/", "e", "x", "a", "m", "p", "l", "e", ".", "c", "o", "m", "/", "p", "a", "g", "e">>, <<"E", "x", "a", "m", "p", "l", "e", " ", "T", "i", "t", "l", "e">>, <<"A", "n", " ", "e", "x", "a", "m", "p", "l", "e", " ", "s", "n", "i", "p", "p", "e", "t", ".">>),
                    Paragraph(<<"O", "u", "r", " ", "s", "y", "s", "t", "e", "m", "s", " ", "h", "a", "v", "e", " ", "d", "e", "t", "e", "c", "t", "e", "d", " ", "u", "n", "u", "s", "u", "a", "l", " ", "t", "r", "a", "f", "f", "i", "c">>)>>, 1))
    /\ call.status = 502

\* extractPayment found a payment and verifyPayment reported it valid
Paid(c) == c.payment # null /\ c.verification # null /\ c.verification.valid

\* the request carries no payment, or its payment failed the verification
Unpaid(c) == c.header = null \/ (c.verification # null /\ ~c.verification.valid)

RateLimit == 2

Window == 2

\* the longest run: ticks of the clock and requests served
MaxTime == 4

MaxRequests == 5

\* the first element of header.split(',')
RECURSIVE UpToComma(_)
UpToComma(s) == IF s = <<>> \/ Head(s) = "," THEN <<>> ELSE <<Head(s)>> \o UpToComma(Tail(s))

\* c.req.header('x-forwarded-for')?.split(',')[0]?.trim() || 'unknown'
ClientKey(header) ==
    IF header = undefined \/ trim(UpToComma(header.text)) = <<>> THEN <<"u", "n", "k", "n", "o", "w", "n">>
    ELSE trim(UpToComma(header.text))

ForwardedFor == {undefined, Text(<<"1", ".", "1", ".", "1", ".", "1">>), Text(<<" ", "1", ".", "1", ".", "1", ".", "1", " ", ",", " ", "9", ".", "9", ".", "9", ".", "9">>), Text(<<" ", ",", "1", ".", "1", ".", "1", ".", "1">>)}

ClientKeys == {ClientKey(h) : h \in ForwardedFor}

\* the window of the entry is over at now
WindowOver(entry, now) == now > entry.resetAt

\* rateLimits.set(ip, { count: 1, resetAt: now + 60_000 })
OpenWindow(now) == [count |-> 1, resetAt |-> now + Window]

\* a counted request that pushes the window forward
CountedSliding(entry, now) == [count |-> entry.count + 1, resetAt |-> now + Window]

\* entry.count++
Counted(entry, now) == [entry EXCEPT !.count = entry.count + 1]

\* the test made on the count before it is incremented
OverLimitBefore(entry) == entry.count - 1 > RateLimit

\* entry.count > RATE_LIMIT, on the incremented count
OverLimit(entry) == entry.count > RateLimit

\* the entry of the key after the middleware has looked at the request
EntryAfter(entry, now) ==
    IF entry = null \/ WindowOver(entry, now) THEN OpenWindow(now) ELSE Counted(entry, now)

Opens(entry, now) == entry = null \/ WindowOver(entry, now)

\* what the middleware does with the request: 429 with Retry-After, or next()
Served(key, entry, now) ==
    [key |-> key, at |-> now,
     count |-> EntryAfter(entry, now).count, resetAt |-> EntryAfter(entry, now).resetAt,
     status |-> IF ~Opens(entry, now) /\ OverLimit(EntryAfter(entry, now)) THEN "429" ELSE "next",
     retryAfter |-> IF ~Opens(entry, now) /\ OverLimit(EntryAfter(entry, now)) THEN Text(<<"6", "0">>) ELSE null]

\* the timer that deletes every entry whose window is not in the future
SweepDue(entry, now) == IF entry # null /\ now >= entry.resetAt THEN null ELSE entry

\* if (now > entry.resetAt) rateLimits.delete(ip)
Sweep(entry, now) == IF entry # null /\ now > entry.resetAt THEN null ELSE entry

InitLimit ==
    /\ fn = "none" /\ arg = "none" /\ ret = "none"
    /\ call = [now |-> 0, rateLimits |-> [k \in ClientKeys |-> null], log |-> <<>>]

\* Date.now() has advanced
ClockAdvance ==
    /\ call.now < MaxTime
    /\ call' = [call EXCEPT !.now = call.now + 1]
    /\ UNCHANGED pureVars

\* app.use('*', ...): one request goes through the middleware
RateLimitMiddleware ==
    /\ Len(call.log) < MaxRequests
    /\ \E header \in ForwardedFor :
         call' = [call EXCEPT
                    !.rateLimits[ClientKey(header)] =
                        EntryAfter(call.rateLimits[ClientKey(header)], call.now),
                    !.log = Append(call.log,
                        Served(ClientKey(header), call.rateLimits[ClientKey(header)], call.now))]
    /\ UNCHANGED pureVars

\* the setInterval callback runs
CleanupTimer ==
    /\ call' = [call EXCEPT !.rateLimits = [k \in ClientKeys |-> Sweep(call.rateLimits[k], call.now)]]
    /\ UNCHANGED pureVars

NextLimit == ClockAdvance \/ RateLimitMiddleware \/ CleanupTimer

SpecLimit == InitLimit /\ [][NextLimit]_vars

\* the requests of key that were passed on to the routes at a time in from..to,
\* counted from entry first of the log on
PassedIn(key, first, from, to) ==
    {j \in first..Len(call.log) :
        /\ call.log[j].key = key /\ call.log[j].status = "next"
        /\ call.log[j].at >= from /\ call.log[j].at <= to}

\* a request the middleware answered itself carries 429 and Retry-After: 60
RejectedWithRetryAfter ==
    \A j \in 1..Len(call.log) :
        call.log[j].retryAfter = (IF call.log[j].status = "429" THEN Text(<<"6", "0">>) ELSE null)

\* C21 as stated: for every key and every span of 60 seconds, wherever it
\* starts, no more than RATE_LIMIT requests of the key are passed on to the
\* routes; every other request is answered 429 with Retry-After: 60.
C21_AnySpanBounded ==
    /\ RejectedWithRetryAfter
    /\ \A key \in ClientKeys, t \in 0..MaxTime :
          Cardinality(PassedIn(key, 1, t, t + Window - 1)) <= RateLimit

\* C21 amended: for every key, no more than RATE_LIMIT requests of the key are
\* passed on to the routes within any one window, the 60 seconds that start
\* with the request that opened it; every request beyond that is answered 429
\* with Retry-After: 60 and does not reach a route.
C21_WindowBounded ==
    /\ RejectedWithRetryAfter
    /\ \A i \in 1..Len(call.log) :
          call.log[i].count = 1 =>
              Cardinality(PassedIn(call.log[i].key, i, call.log[i].at, call.log[i].at + Window))
                 <= RateLimit

\* a key was passed RATE_LIMIT times in one window and then answered 429
C21_Witness ==
    \E i, j \in 1..Len(call.log) :
        /\ i < j /\ call.log[i].count = 1 /\ call.log[j].key = call.log[i].key
        /\ call.log[j].at <= call.log[i].at + Window
        /\ call.log[j].status = "429"
        /\ Cardinality(PassedIn(call.log[i].key, i, call.log[i].at, call.log[i].at + Window)) = RateLimit

\* the entries of the log in front of entry j that have its key
Earlier(j) == {i \in 1..(j - 1) : call.log[i].key = call.log[j].key}

\* the last of them
Previous(j) == CHOOSE i \in Earlier(j) : \A k \in Earlier(j) : k <= i

\* C23: the first request of a key, and the first one arriving strictly after
\* resetAt, opens a window with count 1 and resetAt = now + 60000 and is
\* accepted; every other request increments the count, rejected ones included,
\* leaves resetAt as it is, and is rejected exactly when the incremented count
\* exceeds RATE_LIMIT. So a request arriving more than 60 seconds after its
\* window opened is accepted, however many requests came in between.
C23_FixedWindow ==
    \A j \in 1..Len(call.log) :
        IF Earlier(j) = {} \/ call.log[j].at > call.log[Previous(j)].resetAt
        THEN /\ call.log[j].count = 1
             /\ call.log[j].resetAt = call.log[j].at + Window
             /\ call.log[j].status = "next"
        ELSE /\ call.log[j].count = call.log[Previous(j)].count + 1
             /\ call.log[j].resetAt = call.log[Previous(j)].resetAt
             /\ call.log[j].status = "429" <=> call.log[j].count > RateLimit

\* a key opened a window, was rejected in it, and was accepted again with
\* count 1 once the window was over
C23_Witness ==
    \E i, j, k \in 1..Len(call.log) :
        /\ i < j /\ j < k
        /\ call.log[i].key = call.log[j].key /\ call.log[j].key = call.log[k].key
        /\ call.log[i].count = 1
        /\ call.log[j].status = "429" /\ call.log[j].resetAt = call.log[i].resetAt
        /\ call.log[k].at > call.log[i].at + Window
        /\ call.log[k].status = "next" /\ call.log[k].count = 1

\* the requests of the key, in the order served
RequestsOf(key) == SelectSeq(call.log, LAMBDA e : e.key = key)

\* the middleware serving the requests sub[k..] of one key on a map of its
\* own that no timer and no other key touches
RECURSIVE ServedAlone(_, _, _)
ServedAlone(sub, k, entry) ==
    IF k > Len(sub) THEN <<>>
    ELSE <<Served(sub[k].key, entry, sub[k].at)>>
         \o ServedAlone(sub, k + 1, EntryAfter(entry, sub[k].at))

\* C24: the cleanup timer is unobservable and the buckets are isolated: with
\* the timer running at any point between requests, and with requests of
\* other keys in between, every request of a key is accepted or rejected,
\* with the same count and window, as if the key's requests were served alone
\* on a map that is never cleaned; the timer deletes expired entries only.
C24_CleanupUnobservable ==
    /\ \A key \in ClientKeys : RequestsOf(key) = ServedAlone(RequestsOf(key), 1, null)
    /\ \A key \in ClientKeys :
          call.rateLimits[key] # null =>
              \E j \in 1..Len(call.log) :
                  /\ call.log[j].key = key
                  /\ call.log[j].resetAt = call.rateLimits[key].resetAt

\* the timer has deleted the expired entry of one key and kept the entry of
\* another key, whose window is still open
C24_Witness ==
    \E gone, kept \in ClientKeys :
        /\ Len(RequestsOf(gone)) >= 1 /\ call.rateLimits[gone] = null
        /\ call.rateLimits[kept] # null
        /\ call.rateLimits[kept].count >= 2
        /\ call.now <= call.rateLimits[kept].resetAt

\* C22: every emitted business record has a name that is non-empty and has no
\* leading or trailing white space, whichever path built the record.
C22_NamesTrimmedNonEmpty ==
    \A i \in 1..Len(Emitted) :
        Emitted[i].name # <<>> /\ trim(Emitted[i].name) = Emitted[i].name

\* what strategy n of extractOrganicResults accepts when it is the only one to run
StrategyAlone(n, html) == OrganicStrategy(n, html.toks, NoResults)

\* the strategies that accept at least one result of the document
Yielding(html) == {n \in 1..5 : StrategyAlone(n, html).results # <<>>}

\* C25: a fallback strategy of extractOrganicResults runs only when no earlier
\* strategy has accepted a result, so the returned list is the list of one
\* strategy, the first that accepts a result of the document, and is empty
\* when none does; results of different strategies are never mixed.
C25_OneStrategyPerList ==
    fn = "extractOrganicResults" /\ ret.kind = "return" =>
        IF Yielding(arg) = {} THEN ret.value = <<>>
        ELSE ret.value =
                StrategyAlone(CHOOSE n \in Yielding(arg) : \A m \in Yielding(arg) : n <= m, arg).results

\* two strategies accept different results of the document and the list
\* returned is that of the earlier one
C25_Witness ==
    /\ fn = "extractOrganicResults" /\ ret.kind = "return"
    /\ \E m, n \in Yielding(arg) :
          /\ m < n
          /\ \A k \in Yielding(arg) : m <= k
          /\ \E i \in 1..Len(StrategyAlone(n, arg).results) :
                \A j \in 1..Len(StrategyAlone(m, arg).results) :
                    StrategyAlone(n, arg).results[i].url # StrategyAlone(m, arg).results[j].url
          /\ ret.value = StrategyAlone(m, arg).results

\* the records a strategy's extractor built from the document it fetched
BuiltBy(entry) ==
    IF entry.got.kind = "response" /\ entry.got.ok
    THEN {StrategyFound(entry.strategy, entry.got.html)[j] :
            j \in 1..Len(StrategyFound(entry.strategy, entry.got.html))}
    ELSE {}

\* C26: no record is changed after a strategy has built it: every business held
\* by an invocation of scrapeGoogleMaps is, field for field, a record that the
\* extractor of one of its strategies built.
C26_RecordsKeptAsBuilt ==
    \A i \in 1..Len(call.businesses) :
        \E f \in 1..Len(call.fetched) : call.businesses[i] \in BuiltBy(call.fetched[f])

\* the place of a fragment in the order in which strategies 1 to 3 of
\* extractBusinessesFromHtml reach their matches
StrategyOf(t) == CASE t.k = "js" -> 1 [] t.k = "aria" -> 2 [] t.k = "cls" -> 3 [] OTHER -> 0

IsCandidate(html, i) ==
    /\ StrategyOf(html.toks[i]) # 0
    /\ StrategyMatches(html.toks[i].k, html.toks[i])
    /\ isValidBusinessName(CandidateName(html.toks[i]))

ReachedBefore(html, j, i) ==
    \/ StrategyOf(html.toks[j]) < StrategyOf(html.toks[i])
    \/ StrategyOf(html.toks[j]) = StrategyOf(html.toks[i]) /\ j < i

\* the anchors for which createBusinessFromContext is called
AcceptedAnchor(html, i) ==
    /\ IsCandidate(html, i)
    /\ \A j \in 1..Len(html.toks) :
          IsCandidate(html, j) /\ ReachedBefore(html, j, i)
              => toLowerCase(CandidateName(html.toks[j])) # toLowerCase(CandidateName(html.toks[i]))

\* the window [from, to) that createBusinessFromContext cuts for a name found at nameIndex
ContextWindow(html, nameIndex) ==
    [from |-> Max(0, nameIndex - ContextBefore), to |-> Min(html.len, nameIndex + ContextAfter)]

\* the window lies around the offset: it holds it, starts at most `before`
\* ahead of it and ends at most `after` past it
Around(w, offset, before, after) ==
    /\ w.from <= offset /\ offset < w.to
    /\ offset - w.from <= before
    /\ w.to - offset <= after

\* C27: the context window cut for an anchor of extractBusinessesFromHtml lies
\* around the offset at which that anchor's name was matched: it contains the
\* offset, starts at most 500 characters ahead of it and ends at most 2000
\* characters past it.
C27_WindowAroundAnchor ==
    fn = "extractBusinessesFromHtml" =>
        \A i \in 1..Len(arg.toks) :
            AcceptedAnchor(arg, i) /\ htmlIndexOf(arg, CandidateName(arg.toks[i])) # -1 =>
                Around(ContextWindow(arg, htmlIndexOf(arg, CandidateName(arg.toks[i]))),
                       NameAt(arg.toks[i]), ContextBefore, ContextAfter)

\* the parameters of a request pass the checks of its route
ParamsValid(c) ==
    CASE c.route = "run" ->
            /\ Truthy(c.params.query) /\ Truthy(c.params.location)
            /\ Truthy(c.params.limit) =>
                  ~IsNaN(parseInt(c.params.limit.text)) /\ parseInt(c.params.limit.text).num >= 1
      [] c.route = "details" -> Truthy(c.params.placeId)
      [] c.route = "serp" ->
            /\ Truthy(c.params.query)
            /\ IsTwoLetterCode(OrDefault(c.params.country, <<"u", "s">>))
            /\ IsTwoLetterCode(OrDefault(c.params.language, <<"e", "n">>))
            /\ Truthy(c.params.start) =>
                  ~IsNaN(parseInt(c.params.start.text)) /\ parseInt(c.params.start.text).num >= 0

PaymentVerified(c) == c.verification # null /\ c.verification.valid

\* C28: a paid route decides its answer in a fixed order: 500 without a wallet,
\* else 402 without a payment, else 402 for a payment that fails verification,
\* else 400 for a missing or invalid parameter, else 200 or 502 from the
\* scrape; so a 400 is given only after the payment was verified, and the
\* payment headers are set only on a 200 answer.
C28_FixedOrder ==
    call.pc = "done" =>
        /\ IF ~call.walletAddress THEN call.status = 500
           ELSE IF call.header = null THEN call.status = 402
           ELSE IF ~PaymentVerified(call) THEN call.status = 402
           ELSE IF ~ParamsValid(call) THEN call.status = 400
           ELSE call.status \in {200, 502}
        /\ call.status = 400 => PaymentVerified(call)
        /\ call.headers # NoHeaders => call.status = 200

\* a request that passed every check and was answered 200 with the payment headers
C28_Witness ==
    /\ call.pc = "done" /\ call.status = 200
    /\ call.walletAddress /\ PaymentVerified(call) /\ ParamsValid(call)
    /\ call.headers = [settled |-> Text(<<"t", "r", "u", "e">>), txHash |-> call.payment]

\* C29: in the list returned by one call of extractBusinessesFromHtml no two
\* records have the same case-folded name.
C29_NoTwoRecordsShareFoldedName ==
    fn = "extractBusinessesFromHtml" =>
        \A i, j \in 1..Len(ret) :
            i < j => toLowerCase(ret[i].name) # toLowerCase(ret[j].name)

\* C30: no key of the attribute map of a knowledge panel names the title, the
\* subtitle or the description attribute, in whatever letter case the
\* attribute id stands in the document.
C30_NoCollidingAttributeKey ==
    fn = "extractKnowledgePanel" /\ ret # null =>
        \A n \in 1..Len(ret.attributes) :
            toLowerCase(ret.attributes[n].key)
                \notin {<<"t", "i", "t", "l", "e">>, <<"s", "u", "b", "t", "i", "t", "l", "e">>,
                        <<"d", "e", "s", "c", "r", "i", "p", "t", "i", "o", "n">>}

\* ------------------------------------------------------------------------
\* The validator applied to one candidate
\* ------------------------------------------------------------------------

InitValid == fn = "none" /\ arg \in NamePool /\ ret = "none" /\ call = null

ApplyIsValidBusinessName ==
    /\ fn = "none"
    /\ fn' = "isValidBusinessName"
    /\ ret' = isValidBusinessName(arg)
    /\ UNCHANGED <<arg, call>>

NextValid == ApplyIsValidBusinessName

SpecValid == InitValid /\ [][NextValid]_vars

\* the first and the last character are quotation marks
BoundedByQuotes(name) == Len(name) >= 2 /\ name[1] \in QuoteSet /\ name[Len(name)] \in QuoteSet

\* the number of maximal runs of characters that are not white space
WordCount(name) ==
    Cardinality({i \in 1..Len(name) :
        name[i] \notin WhiteSet /\ (i = 1 \/ name[i - 1] \in WhiteSet)})

NoLetter(name) == \A i \in 1..Len(name) : name[i] \notin UpperSet \cup LowerSet

FullyUpperCase(name) == ~NoLetter(name) /\ \A i \in 1..Len(name) : name[i] \notin LowerSet

\* C8: isValidBusinessName rejects every candidate that is shorter than 2 or longer
\* than 80 characters, or bounded by quotation marks, or has more than 8 words
\* separated by white space, or has no alphabetic character, or is fully
\* upper-case and longer than 20 characters.
C8_ValidatorRejects ==
    fn = "isValidBusinessName" =>
        (( \/ Len(arg) < 2
           \/ Len(arg) > 80
           \/ BoundedByQuotes(arg)
           \/ WordCount(arg) > 8
           \/ NoLetter(arg)
           \/ (FullyUpperCase(arg) /\ Len(arg) > 20) ) => ret = FALSE)

\* a banner of 21 to 80 upper-case letters, one word, no quotation mark, was rejected
C8_Witness ==
    /\ fn = "isValidBusinessName"
    /\ FullyUpperCase(arg) /\ Len(arg) > 20 /\ Len(arg) <= 80
    /\ WordCount(arg) = 1 /\ ~BoundedByQuotes(arg)
    /\ ret = FALSE

====
